---- MODULE Spec2Model ----
(***************************************************************************)
(* A model of the recommendation backend: the scope classifier             *)
(* (services/query_parser_service.py), the session store                   *)
(* (services/memory_service.py), the query normalizer                      *)
(* (services/qdrant_service.py), the response templates                    *)
(* (services/response_templates.py), the recommendation pipeline           *)
(* (services/langchain_service.py) and the request handler                 *)
(* (routers/langchain_recommendation.py).                                  *)
(***************************************************************************)
EXTENDS Integers, Sequences, FiniteSets, TLC

VARIABLES
  pc,             \* position of the operation being executed
  related,        \* the value returned by is_movie_related
  conversations,  \* ConversationMemory.conversations: session id -> turns
  max_history,    \* ConversationMemory.max_history
  added,          \* per session, the turns added since it was last cleared
  writers,        \* the add_message calls in progress: position and locals
  query,          \* the query text of the call or request
  chat_history,   \* the (question, answer) turns passed to the call
  user_profile,   \* the profile passed to the call (NoProfile for None)
  user_name,      \* the user name passed to the call (NoneStr for None)
  context,        \* the candidate list
  response_type,  \* the response type passed to or selected for the prompt
  prompt_data,    \* the value returned by create_structured_prompt
  llm_reply,      \* the reply of the remote normalizer to the last call
  base_query_for_search,  \* the text returned by parse_query_with_llm
  filters,        \* the filters returned by parse_query_with_llm
  use_template,   \* get_recommendation's use_template argument
  use_llm_parsing,  \* get_recommendation's use_llm_parsing argument
  enhanced_query, \* the query after the enrichment with the profile
  excluded_titles,  \* the titles extracted from the history
  searches,       \* the vector searches made so far, with their results
  reranked,       \* the candidate list as the rerank step left it
  result,         \* the value returned by get_recommendation
  raised,         \* the step of get_recommendation that raised, or "none"
  request,        \* the request being handled
  mock_database,  \* MOCK_DATABASE: user id -> name and profile
  history_aliased,  \* history_tuples is the list object held by the store
  response        \* the HTTP response of the handler

scopeVars  == <<related>>
memoryVars == <<conversations, max_history, added, writers>>
argVars    == <<query, chat_history, user_profile, user_name>>
promptVars == <<context, response_type, prompt_data>>
parseVars  == <<llm_reply, base_query_for_search, filters>>
flagVars   == <<use_template, use_llm_parsing>>
pipeVars   == <<enhanced_query, excluded_titles, searches, reranked, result, raised>>
handlerVars == <<request, mock_database, history_aliased, response>>
vars       == <<pc, scopeVars, memoryVars, argVars, promptVars, parseVars,
                flagVars, pipeVars, handlerVars>>

(***************************************************************************)
(* Bounds of the model.                                                    *)
(***************************************************************************)
\* add_message calls in one run of the session store
MaxAdds == 12
\* fragments concatenated into one query of the scope classifier
MaxFragments == 2
\* fragments concatenated into one query of the prompt builder
MaxPromptFragments == 2

\* characters outside ASCII that are letters (str.isalnum)
NonAsciiLetters ==
  {"U+00AA", "U+00C0", "U+00C1", "U+00C3", "U+00C5", "U+00C9", "U+00CA",
   "U+00CB", "U+00CC", "U+00CD", "U+00D3", "U+00D4", "U+00D6", "U+00D8",
   "U+00E0", "U+00E1", "U+00E3", "U+00E5", "U+00E9", "U+00EA", "U+00EB",
   "U+00EC", "U+00ED", "U+00F3", "U+00F4", "U+00F6", "U+00F8", "U+0102",
   "U+0103", "U+0110", "U+0111", "U+0191", "U+0192", "U+01AF", "U+01B0",
   "U+03A9", "U+03C9", "U+1EA0", "U+1EA1", "U+1EA2", "U+1EA3", "U+1EA4",
   "U+1EA5", "U+1EAC", "U+1EAD", "U+1EAE", "U+1EAF", "U+1EBE", "U+1EBF",
   "U+1EC0", "U+1EC1", "U+1EC2", "U+1EC3", "U+1EC4", "U+1EC5", "U+1EC6",
   "U+1EC7", "U+1ECA", "U+1ECB", "U+1ECC", "U+1ECD", "U+1ED8", "U+1ED9",
   "U+1EDC", "U+1EDD", "U+1EDE", "U+1EDF", "U+1EE8", "U+1EE9", "U+1EF8",
   "U+1EF9"}
\* fragments concatenated into one query of the response type selection
MaxDetectFragments == 2
(***************************************************************************)
(* Text.  A Python str is a sequence of one-character strings; a character  *)
(* outside ASCII is written by its code point ("U+0111").                   *)
(***************************************************************************)
LowerAscii ==
  {"a","b","c","d","e","f","g","h","i","j","k","l","m",
   "n","o","p","q","r","s","t","u","v","w","x","y","z"}

UpperAscii ==
  {"A","B","C","D","E","F","G","H","I","J","K","L","M",
   "N","O","P","Q","R","S","T","U","V","W","X","Y","Z"}

Digits == {"0","1","2","3","4","5","6","7","8","9"}

Whitespace == {" ", "\t", "\n", "\r"}

UpperSeq ==
  <<"A","B","C","D","E","F","G","H","I","J","K","L","M",
    "N","O","P","Q","R","S","T","U","V","W","X","Y","Z",
    "U+00C0", "U+00C1", "U+00C3", "U+00C5", "U+00C9", "U+00CA", "U+00CB",
    "U+00CC", "U+00CD", "U+00D3", "U+00D4", "U+00D6", "U+00D8", "U+0102",
    "U+0110", "U+0191", "U+01AF", "U+03A9", "U+1EA0", "U+1EA2", "U+1EA4",
    "U+1EAC", "U+1EAE", "U+1EBE", "U+1EC0", "U+1EC2", "U+1EC4", "U+1EC6",
    "U+1ECA", "U+1ECC", "U+1ED8", "U+1EDC", "U+1EDE", "U+1EE8", "U+1EF8">>

LowerSeq ==
  <<"a","b","c","d","e","f","g","h","i","j","k","l","m",
    "n","o","p","q","r","s","t","u","v","w","x","y","z",
    "U+00E0", "U+00E1", "U+00E3", "U+00E5", "U+00E9", "U+00EA", "U+00EB",
    "U+00EC", "U+00ED", "U+00F3", "U+00F4", "U+00F6", "U+00F8", "U+0103",
    "U+0111", "U+0192", "U+01B0", "U+03C9", "U+1EA1", "U+1EA3", "U+1EA5",
    "U+1EAD", "U+1EAF", "U+1EBF", "U+1EC1", "U+1EC3", "U+1EC5", "U+1EC7",
    "U+1ECB", "U+1ECD", "U+1ED9", "U+1EDD", "U+1EDF", "U+1EE9", "U+1EF9">>

WordChars == LowerAscii \cup UpperAscii \cup Digits \cup {"_"} \cup NonAsciiLetters

\* str.lower() on one character
LowerChar(c) ==
  IF \E i \in 1..Len(UpperSeq) : UpperSeq[i] = c
  THEN LowerSeq[CHOOSE i \in 1..Len(UpperSeq) : UpperSeq[i] = c]
  ELSE c

\* str.lower()
Lower(s) == [i \in 1..Len(s) |-> LowerChar(s[i])]

\* the Python expression  `k in s`  for two strings
IsSubstr(k, s) ==
  \E i \in 0..(Len(s) - Len(k)) : SubSeq(s, i + 1, i + Len(k)) = k

\* str.strip()
Strip(s) ==
  IF \A i \in 1..Len(s) : s[i] \in Whitespace
  THEN <<>>
  ELSE LET a == CHOOSE i \in 1..Len(s) :
                  /\ s[i] \notin Whitespace
                  /\ \A j \in 1..(i - 1) : s[j] \in Whitespace
           b == CHOOSE i \in 1..Len(s) :
                  /\ s[i] \notin Whitespace
                  /\ \A j \in (i + 1)..Len(s) : s[j] \in Whitespace
       IN  SubSeq(s, a, b)

\* len(s.split()): the number of maximal runs of non-whitespace characters
SplitCount(s) ==
  Cardinality({i \in 1..Len(s) :
                 /\ s[i] \notin Whitespace
                 /\ (i = 1 \/ s[i - 1] \in Whitespace)})

\* ", ".join(xs) and friends
RECURSIVE Join(_, _)
Join(sep, xs) ==
  IF Len(xs) = 0 THEN <<>>
  ELSE IF Len(xs) = 1 THEN xs[1]
  ELSE xs[1] \o sep \o Join(sep, Tail(xs))

\* xs[:n]
Take(xs, n) == SubSeq(xs, 1, IF n < Len(xs) THEN n ELSE Len(xs))

\* xs[-n:]  (n = 0 gives the whole list: xs[-0:] is xs[0:])
LastN(xs, n) ==
  IF n = 0 \/ n >= Len(xs) THEN xs ELSE SubSeq(xs, Len(xs) - n + 1, Len(xs))

\* [x for x in xs if keep(x)]
RECURSIVE SelectSeqIdx(_, _)
SelectSeqIdx(xs, keep) ==
  IF Len(xs) = 0 THEN <<>>
  ELSE (IF xs[1] \in keep THEN <<xs[1]>> ELSE <<>>) \o SelectSeqIdx(Tail(xs), keep)

Range(xs) == {xs[i] : i \in 1..Len(xs)}

\* s.split(c) for a one-character separator c
RECURSIVE SplitOn(_, _)
SplitOn(s, c) ==
  IF \A i \in 1..Len(s) : s[i] # c THEN <<s>>
  ELSE LET k == CHOOSE i \in 1..Len(s) : s[i] = c /\ \A j \in 1..(i - 1) : s[j] # c
       IN  <<SubSeq(s, 1, k - 1)>> \o SplitOn(SubSeq(s, k + 1, Len(s)), c)

\* re.sub(r'\*\*', '', s): s without its non-overlapping pairs of stars
RECURSIVE RemoveStarPairs(_)
RemoveStarPairs(s) ==
  IF Len(s) = 0 THEN <<>>
  ELSE IF Len(s) >= 2 /\ s[1] = "*" /\ s[2] = "*" THEN RemoveStarPairs(SubSeq(s, 3, Len(s)))
  ELSE <<s[1]>> \o RemoveStarPairs(Tail(s))

\* str(n) for an int n >= 0
RECURSIVE IntToStr(_)
IntToStr(n) ==
  LET d == <<"0","1","2","3","4","5","6","7","8","9">>[(n % 10) + 1]
  IN  IF n < 10 THEN <<d>> ELSE IntToStr(n \div 10) \o <<d>>

(***************************************************************************)
(* Regular expressions (the `re` module), as a backtracking matcher that    *)
(* lists the matches of a pattern at a position in the order in which       *)
(* Python tries them; the first one is the match Python reports.            *)
(***************************************************************************)
Lit(s)            == [t |-> "lit", s |-> s]
Cls(S)            == [t |-> "cls", set |-> S, neg |-> FALSE]
NotCls(S)         == [t |-> "cls", set |-> S, neg |-> TRUE]
Cat(rs)           == [t |-> "cat", rs |-> rs]
Alt(rs)           == [t |-> "alt", rs |-> rs]
Rep(r, min, gr)   == [t |-> "rep", r |-> r, min |-> min, greedy |-> gr]
Opt(r, gr)        == [t |-> "opt", r |-> r, greedy |-> gr]
Grp(r)            == [t |-> "grp", r |-> r]
WB                == [t |-> "wb"]
EOL               == [t |-> "eol"]

NoGroup == <<0, 0>>

\* \b at position i (between s[i-1] and s[i])
IsWordBoundary(s, i) ==
  LET before == i > 1 /\ s[i - 1] \in WordChars
      after  == i <= Len(s) /\ s[i] \in WordChars
  IN  before # after

\* $ without MULTILINE: at the end, or before a newline that ends the string
IsEnd(s, i) == i = Len(s) + 1 \/ (i = Len(s) /\ s[i] = "\n")

RECURSIVE ReMatch(_, _, _, _), ReCat(_, _, _, _, _), ReCatOver(_, _, _, _, _),
          ReAlt(_, _, _, _, _), ReRep(_, _, _, _, _), ReRepOver(_, _, _, _),
          ReGrpOver(_, _, _)

\* the matches of r in s starting at i, as <<[e |-> end, g |-> group 1]>>
ReMatch(r, s, i, g) ==
  CASE r.t = "lit" ->
         IF i + Len(r.s) - 1 <= Len(s) /\ SubSeq(s, i, i + Len(r.s) - 1) = r.s
         THEN <<[e |-> i + Len(r.s), g |-> g]>> ELSE <<>>
    [] r.t = "cls" ->
         IF i <= Len(s) /\ ((s[i] \in r.set) # r.neg)
         THEN <<[e |-> i + 1, g |-> g]>> ELSE <<>>
    [] r.t = "wb"  -> IF IsWordBoundary(s, i) THEN <<[e |-> i, g |-> g]>> ELSE <<>>
    [] r.t = "eol" -> IF IsEnd(s, i) THEN <<[e |-> i, g |-> g]>> ELSE <<>>
    [] r.t = "cat" -> ReCat(r.rs, 1, s, i, g)
    [] r.t = "alt" -> ReAlt(r.rs, 1, s, i, g)
    [] r.t = "opt" ->
         IF r.greedy THEN ReMatch(r.r, s, i, g) \o <<[e |-> i, g |-> g]>>
         ELSE <<[e |-> i, g |-> g]>> \o ReMatch(r.r, s, i, g)
    [] r.t = "rep" -> ReRep(r, s, i, g, r.min)
    [] r.t = "grp" -> ReGrpOver(ReMatch(r.r, s, i, g), 1, i)

ReCat(rs, k, s, i, g) ==
  IF k > Len(rs) THEN <<[e |-> i, g |-> g]>>
  ELSE ReCatOver(ReMatch(rs[k], s, i, g), 1, rs, k + 1, s)

ReCatOver(ms, n, rs, k, s) ==
  IF n > Len(ms) THEN <<>>
  ELSE ReCat(rs, k, s, ms[n].e, ms[n].g) \o ReCatOver(ms, n + 1, rs, k, s)

ReAlt(rs, k, s, i, g) ==
  IF k > Len(rs) THEN <<>>
  ELSE ReMatch(rs[k], s, i, g) \o ReAlt(rs, k + 1, s, i, g)

ReRep(r, s, i, g, min) ==
  LET stop == IF min = 0 THEN <<[e |-> i, g |-> g]>> ELSE <<>>
      more == ReRepOver(SelectSeq(ReMatch(r.r, s, i, g), LAMBDA m : m.e > i), 1, r, s)
  IN  IF r.greedy THEN more \o stop ELSE stop \o more

ReRepOver(ms, n, r, s) ==
  IF n > Len(ms) THEN <<>>
  ELSE ReRep(r, s, ms[n].e, ms[n].g, 0) \o ReRepOver(ms, n + 1, r, s)

ReGrpOver(ms, n, i) ==
  IF n > Len(ms) THEN <<>>
  ELSE <<[e |-> ms[n].e, g |-> <<i, ms[n].e>>]>> \o ReGrpOver(ms, n + 1, i)

\* re.search(r, s) from position `from`: the leftmost start with a match
ReStarts(r, s, from) ==
  {i \in from..(Len(s) + 1) : Len(ReMatch(r, s, i, NoGroup)) > 0}

ReFound(r, s) == ReStarts(r, s, 1) # {}

Min(S) == CHOOSE x \in S : \A y \in S : x <= y

\* m.group(1) of re.search(r, s), for a pattern that matches
ReGroup1(r, s) ==
  LET i == Min(ReStarts(r, s, 1))
      m == ReMatch(r, s, i, NoGroup)[1]
  IN  SubSeq(s, m.g[1], m.g[2] - 1)

\* re.findall(r, s) for a pattern with one group: the group of each of the
\* non-overlapping matches, left to right
RECURSIVE ReFindAll(_, _, _)
ReFindAll(r, s, from) ==
  IF ReStarts(r, s, from) = {} THEN <<>>
  ELSE LET i == Min(ReStarts(r, s, from))
           m == ReMatch(r, s, i, NoGroup)[1]
       IN  <<SubSeq(s, m.g[1], m.g[2] - 1)>>
             \o ReFindAll(r, s, IF m.e > i THEN m.e ELSE i + 1)

\* int(digits)
RECURSIVE ToInt(_)
DigitValue(c) == CHOOSE n \in 0..9 : <<"0","1","2","3","4","5","6","7","8","9">>[n + 1] = c
ToInt(ds) ==
  IF Len(ds) = 0 THEN 0
  ELSE 10 * ToInt(SubSeq(ds, 1, Len(ds) - 1)) + DigitValue(ds[Len(ds)])

\* query_parser_service.py:15-28
movie_keywords ==
  <<
    <<"m","o","v","i","e">>,
    <<"m","o","v","i","e","s">>,
    <<"f","i","l","m">>,
    <<"f","i","l","m","s">>,
    <<"t","v"," ","s","h","o","w">>,
    <<"t","v"," ","s","h","o","w","s">>,
    <<"s","e","r","i","e","s">>,
    <<"s","h","o","w">>,
    <<"s","h","o","w","s">>,
    <<"n","e","t","f","l","i","x">>,
    <<"w","a","t","c","h">>,
    <<"w","a","t","c","h","i","n","g">>,
    <<"r","e","c","o","m","m","e","n","d">>,
    <<"r","e","c","o","m","m","e","n","d","a","t","i","o","n">>,
    <<"s","u","g","g","e","s","t">>,
    <<"s","u","g","g","e","s","t","i","o","n">>,
    <<"a","c","t","o","r">>,
    <<"a","c","t","r","e","s","s">>,
    <<"d","i","r","e","c","t","o","r">>,
    <<"c","a","s","t">>,
    <<"g","e","n","r","e">>,
    <<"r","a","t","i","n","g">>,
    <<"a","c","t","i","o","n">>,
    <<"c","o","m","e","d","y">>,
    <<"d","r","a","m","a">>,
    <<"t","h","r","i","l","l","e","r">>,
    <<"h","o","r","r","o","r">>,
    <<"r","o","m","a","n","c","e">>,
    <<"d","o","c","u","m","e","n","t","a","r","y">>,
    <<"a","n","i","m","a","t","i","o","n">>,
    <<"s","c","i","-","f","i">>,
    <<"f","a","n","t","a","s","y">>,
    <<"c","r","i","m","e">>,
    <<"m","y","s","t","e","r","y">>,
    <<"a","d","v","e","n","t","u","r","e">>,
    <<"f","a","m","i","l","y">>,
    <<"w","e","s","t","e","r","n">>,
    <<"w","a","r">>,
    <<"p","h","i","m">>,
    <<"p","h","i","m"," ","U+1EA3","n","h">>,
    <<"x","e","m"," ","p","h","i","m">>,
    <<"b","U+1ED9"," ","p","h","i","m">>,
    <<"d","i","U+1EC5","n"," ","v","i","U+00EA","n">>,
    <<"U+0111","U+1EA1","o"," ","d","i","U+1EC5","n">>,
    <<"h","U+00E0","n","h"," ","U+0111","U+1ED9","n","g">>,
    <<"k","i","n","h"," ","d","U+1ECB">>,
    <<"t","U+00EC","n","h"," ","c","U+1EA3","m">>,
    <<"h","U+00E0","i">>,
    <<"a","n","i","m","e">>,
    <<"c","a","r","t","o","o","n">>,
    <<"s","e","a","s","o","n">>,
    <<"e","p","i","s","o","d","e">>,
    <<"s","t","r","e","a","m","i","n","g">>,
    <<"b","l","o","c","k","b","u","s","t","e","r">>,
    <<"o","s","c","a","r">>,
    <<"i","m","d","b">>,
    <<"r","e","l","e","a","s","e","d">>,
    <<"p","r","e","m","i","e","r","e">>,
    <<"y","e","a","r">>,
    <<"n","U+0103","m">>
  >>

\* query_parser_service.py:32-50
non_movie_keywords ==
  <<
    <<"w","e","a","t","h","e","r">>,
    <<"t","e","m","p","e","r","a","t","u","r","e">>,
    <<"f","o","r","e","c","a","s","t">>,
    <<"r","a","i","n">>,
    <<"s","u","n","n","y">>,
    <<"t","h","U+1EDD","i"," ","t","i","U+1EBF","t">>,
    <<"n","h","i","U+1EC7","t"," ","U+0111","U+1ED9">>,
    <<"t","r","U+1EDD","i">>,
    <<"m","U+01B0","a">>,
    <<"n","U+1EAF","n","g">>,
    <<"n","a","m","e">>,
    <<"y","o","u","r"," ","n","a","m","e">>,
    <<"w","h","o"," ","a","r","e"," ","y","o","u">>,
    <<"w","h","a","t"," ","a","r","e"," ","y","o","u">>,
    <<"t","U+00EA","n">>,
    <<"t","U+00EA","n"," ","b","U+1EA1","n">>,
    <<"b","U+1EA1","n"," ","l","U+00E0"," ","a","i">>,
    <<"b","U+1EA1","n"," ","l","U+00E0"," ","g","U+00EC">>,
    <<"c","a","l","c","u","l","a","t","e">>,
    <<"m","a","t","h">>,
    <<"s","o","l","v","e">>,
    <<"e","q","u","a","t","i","o","n">>,
    <<"t","U+00ED","n","h">>,
    <<"t","o","U+00E1","n">>,
    <<"g","i","U+1EA3","i">>,
    <<"n","e","w","s">>,
    <<"c","u","r","r","e","n","t"," ","e","v","e","n","t","s">>,
    <<"p","o","l","i","t","i","c","s">>,
    <<"s","p","o","r","t","s">>,
    <<"t","i","n"," ","t","U+1EE9","c">>,
    <<"t","h","U+1EC3"," ","t","h","a","o">>,
    <<"c","h","U+00ED","n","h"," ","t","r","U+1ECB">>,
    <<"r","e","c","i","p","e">>,
    <<"c","o","o","k","i","n","g">>,
    <<"f","o","o","d">>,
    <<"r","e","s","t","a","u","r","a","n","t">>,
    <<"c","U+00F4","n","g"," ","t","h","U+1EE9","c">>,
    <<"n","U+1EA5","u"," ","U+0103","n">>,
    <<"m","U+00F3","n"," ","U+0103","n">>,
    <<"n","h","U+00E0"," ","h","U+00E0","n","g">>,
    <<"t","r","a","n","s","l","a","t","e">>,
    <<"t","r","a","n","s","l","a","t","i","o","n">>,
    <<"d","U+1ECB","c","h">>,
    <<"m","e","a","n","i","n","g">>,
    <<"b","o","o","k">>,
    <<"n","o","v","e","l">>,
    <<"r","e","a","d">>,
    <<"s","U+00E1","c","h">>,
    <<"t","i","U+1EC3","u"," ","t","h","u","y","U+1EBF","t">>,
    <<"U+0111","U+1ECD","c">>,
    <<"T","h","U+00E1","n","g">>,
    <<"M","o","n","t","h">>,
    <<"J","a","n","u","a","r","y">>,
    <<"F","e","b","r","u","a","r","y">>,
    <<"M","a","r","c","h">>,
    <<"A","p","r","i","l">>,
    <<"M","a","y">>,
    <<"J","u","n","e">>,
    <<"J","u","l","y">>,
    <<"A","u","g","u","s","t">>,
    <<"S","e","p","t","e","m","b","e","r">>,
    <<"O","c","t","o","b","e","r">>,
    <<"N","o","v","e","m","b","e","r">>,
    <<"D","e","c","e","m","b","e","r">>,
    <<"J","a","n">>,
    <<"F","e","b">>,
    <<"M","a","r">>,
    <<"A","p","r">>,
    <<"J","u","n">>,
    <<"J","u","l">>,
    <<"A","u","g">>,
    <<"S","e","p">>,
    <<"O","c","t">>,
    <<"N","o","v">>,
    <<"D","e","c">>
  >>

\* query_parser_service.py:80-85
movie_inquiry_patterns ==
  <<
    \* \b(tell\s+me\s+more\s+about|tell\s+me\s+about|what\s+is|what\'?s|who\s+is|who\'?s|describe|explain)\b
    Cat(<<WB, Grp(Alt(<<Cat(<<Lit(<<"t","e","l","l">>), Rep(Cls(Whitespace), 1, TRUE), Lit(<<"m","e">>), Rep(Cls(Whitespace), 1, TRUE), Lit(<<"m","o","r","e">>), Rep(Cls(Whitespace), 1, TRUE), Lit(<<"a","b","o","u","t">>)>>), Cat(<<Lit(<<"t","e","l","l">>), Rep(Cls(Whitespace), 1, TRUE), Lit(<<"m","e">>), Rep(Cls(Whitespace), 1, TRUE), Lit(<<"a","b","o","u","t">>)>>), Cat(<<Lit(<<"w","h","a","t">>), Rep(Cls(Whitespace), 1, TRUE), Lit(<<"i","s">>)>>), Cat(<<Lit(<<"w","h","a","t">>), Opt(Lit(<<"'">>), TRUE), Lit(<<"s">>)>>), Cat(<<Lit(<<"w","h","o">>), Rep(Cls(Whitespace), 1, TRUE), Lit(<<"i","s">>)>>), Cat(<<Lit(<<"w","h","o">>), Opt(Lit(<<"'">>), TRUE), Lit(<<"s">>)>>), Lit(<<"d","e","s","c","r","i","b","e">>), Lit(<<"e","x","p","l","a","i","n">>)>>)), WB>>),
    \* \b(about|info|information|details|detail)\b.*\b(movie|film|show|series|tv)\b
    Cat(<<WB, Grp(Alt(<<Lit(<<"a","b","o","u","t">>), Lit(<<"i","n","f","o">>), Lit(<<"i","n","f","o","r","m","a","t","i","o","n">>), Lit(<<"d","e","t","a","i","l","s">>), Lit(<<"d","e","t","a","i","l">>)>>)), WB, Rep(NotCls({"\n"}), 0, TRUE), WB, Grp(Alt(<<Lit(<<"m","o","v","i","e">>), Lit(<<"f","i","l","m">>), Lit(<<"s","h","o","w">>), Lit(<<"s","e","r","i","e","s">>), Lit(<<"t","v">>)>>)), WB>>),
    \* \b(movie|film|show|series|tv)\b.*\b(about|info|information|details)\b
    Cat(<<WB, Grp(Alt(<<Lit(<<"m","o","v","i","e">>), Lit(<<"f","i","l","m">>), Lit(<<"s","h","o","w">>), Lit(<<"s","e","r","i","e","s">>), Lit(<<"t","v">>)>>)), WB, Rep(NotCls({"\n"}), 0, TRUE), WB, Grp(Alt(<<Lit(<<"a","b","o","u","t">>), Lit(<<"i","n","f","o">>), Lit(<<"i","n","f","o","r","m","a","t","i","o","n">>), Lit(<<"d","e","t","a","i","l","s">>)>>)), WB>>),
    \* \b(find|search|look\s+for)\b.*\b(movie|film|show|series)\b
    Cat(<<WB, Grp(Alt(<<Lit(<<"f","i","n","d">>), Lit(<<"s","e","a","r","c","h">>), Cat(<<Lit(<<"l","o","o","k">>), Rep(Cls(Whitespace), 1, TRUE), Lit(<<"f","o","r">>)>>)>>)), WB, Rep(NotCls({"\n"}), 0, TRUE), WB, Grp(Alt(<<Lit(<<"m","o","v","i","e">>), Lit(<<"f","i","l","m">>), Lit(<<"s","h","o","w">>), Lit(<<"s","e","r","i","e","s">>)>>)), WB>>)
  >>

\* query_parser_service.py:94-100
movie_context_patterns ==
  <<
    \* \b(best|top|good|great|popular|famous)\b.*\b(watch|see|view)\b
    Cat(<<WB, Grp(Alt(<<Lit(<<"b","e","s","t">>), Lit(<<"t","o","p">>), Lit(<<"g","o","o","d">>), Lit(<<"g","r","e","a","t">>), Lit(<<"p","o","p","u","l","a","r">>), Lit(<<"f","a","m","o","u","s">>)>>)), WB, Rep(NotCls({"\n"}), 0, TRUE), WB, Grp(Alt(<<Lit(<<"w","a","t","c","h">>), Lit(<<"s","e","e">>), Lit(<<"v","i","e","w">>)>>)), WB>>),
    \* \b(what|which|any)\b.*\b(good|watch|see|recommend)\b
    Cat(<<WB, Grp(Alt(<<Lit(<<"w","h","a","t">>), Lit(<<"w","h","i","c","h">>), Lit(<<"a","n","y">>)>>)), WB, Rep(NotCls({"\n"}), 0, TRUE), WB, Grp(Alt(<<Lit(<<"g","o","o","d">>), Lit(<<"w","a","t","c","h">>), Lit(<<"s","e","e">>), Lit(<<"r","e","c","o","m","m","e","n","d">>)>>)), WB>>),
    \* \bshow\s+me\b
    Cat(<<WB, Lit(<<"s","h","o","w">>), Rep(Cls(Whitespace), 1, TRUE), Lit(<<"m","e">>), WB>>),
    \* \blooking\s+for\b
    Cat(<<WB, Lit(<<"l","o","o","k","i","n","g">>), Rep(Cls(Whitespace), 1, TRUE), Lit(<<"f","o","r">>), WB>>),
    \* \bfind\b.*\b(watch|see)\b
    Cat(<<WB, Lit(<<"f","i","n","d">>), WB, Rep(NotCls({"\n"}), 0, TRUE), WB, Grp(Alt(<<Lit(<<"w","a","t","c","h">>), Lit(<<"s","e","e">>)>>)), WB>>)
  >>

(***************************************************************************)
(* QueryParserService.is_movie_related                                     *)
(***************************************************************************)
\* any(kw in query_lower for kw in keywords)
ContainsAny(keywords, text) ==
  \E i \in 1..Len(keywords) : IsSubstr(keywords[i], text)

\* any(re.search(pattern, query_lower) for pattern in patterns)
MatchesAny(patterns, text) ==
  \E i \in 1..Len(patterns) : ReFound(patterns[i], text)

\* a variant that tests the off-topic list before the domain list
is_movie_related_offtopic_first(q) ==
  LET query_lower == Lower(q)
  IN  IF ContainsAny(non_movie_keywords, query_lower) THEN FALSE
      ELSE IF ContainsAny(movie_keywords, query_lower) THEN TRUE
      ELSE IF MatchesAny(movie_inquiry_patterns, query_lower) THEN TRUE
      ELSE IF MatchesAny(movie_context_patterns, query_lower) THEN TRUE
      ELSE SplitCount(q) <= 5

\* a variant whose short-query default admits fewer than 5 tokens only
is_movie_related_short_lt5(q) ==
  LET query_lower == Lower(q)
  IN  IF ContainsAny(movie_keywords, query_lower) THEN TRUE
      ELSE IF ContainsAny(non_movie_keywords, query_lower) THEN FALSE
      ELSE IF MatchesAny(movie_inquiry_patterns, query_lower) THEN TRUE
      ELSE IF MatchesAny(movie_context_patterns, query_lower) THEN TRUE
      ELSE IF SplitCount(q) < 5 /\ ~ContainsAny(non_movie_keywords, query_lower)
           THEN TRUE
      ELSE FALSE

\* a variant that tests the inquiry patterns before the off-topic list
is_movie_related_inquiry_first(q) ==
  LET query_lower == Lower(q)
  IN  IF ContainsAny(movie_keywords, query_lower) THEN TRUE
      ELSE IF MatchesAny(movie_inquiry_patterns, query_lower) THEN TRUE
      ELSE IF ContainsAny(non_movie_keywords, query_lower) THEN FALSE
      ELSE IF MatchesAny(movie_context_patterns, query_lower) THEN TRUE
      ELSE IF SplitCount(q) <= 5 /\ ~ContainsAny(non_movie_keywords, query_lower)
           THEN TRUE
      ELSE FALSE

is_movie_related(q) ==
  LET query_lower == Lower(q)
  IN  IF ContainsAny(movie_keywords, query_lower) THEN TRUE
      ELSE IF ContainsAny(non_movie_keywords, query_lower) THEN FALSE
      ELSE IF MatchesAny(movie_inquiry_patterns, query_lower) THEN TRUE
      ELSE IF MatchesAny(movie_context_patterns, query_lower) THEN TRUE
      ELSE IF SplitCount(q) <= 5 /\ ~ContainsAny(non_movie_keywords, query_lower)
           THEN TRUE
      ELSE FALSE

(***************************************************************************)
(* Calls of is_movie_related                                               *)
(***************************************************************************)
\* pieces of query text; a query is up to MaxFragments of them, space-joined
ScopeFragments ==
  { <<"I","n","c","e","p","t","i","o","n">>, <<"a"," ","b"," ","c">>, <<"x"," ","y"," ","z">>, <<"t","h","e"," ","w","e","a","t","h","e","r">>, <<"M","a","y">>,
    <<"a"," ","m","o","v","i","e">>, <<"w","h","a","t"," ","i","s">>, <<"N","e","w","s">>, <<"t","o"," ","b","e">>, <<>> }

RECURSIVE FragmentQueries(_)
FragmentQueries(n) ==
  IF n = 0 THEN {}
  ELSE ScopeFragments
         \cup {q \o <<" ">> \o f : q \in FragmentQueries(n - 1), f \in ScopeFragments}

ScopeQueries == FragmentQueries(MaxFragments)

ScopeIdle == related = FALSE

IsMovieRelatedCall ==
  /\ pc = "scope"
  /\ related' = is_movie_related(query)
  /\ pc' = "scope_done"
  /\ UNCHANGED <<memoryVars, argVars, promptVars, parseVars, flagVars, pipeVars, handlerVars>>

(***************************************************************************)
(* ConversationMemory                                                      *)
(***************************************************************************)
SessionIds == {"s1", "s2"}

\* get_memory_service(): ConversationMemory(max_history=10)
DefaultMaxHistory == 10

\* the caps a ConversationMemory is constructed with
Caps == {1, 2, DefaultMaxHistory}

\* the (question, answer) pairs stored by the session store runs
MemoryTurns == {<<"q1", "a1">>, <<"q2", "a2">>}

\* a variant that keeps the first N turns on overflow
add_message_keep_first(conv, cap, session_id, question, answer) ==
  LET c1 == IF session_id \notin DOMAIN conv THEN conv @@ (session_id :> <<>>) ELSE conv
      c2 == [c1 EXCEPT ![session_id] = Append(@, <<question, answer>>)]
  IN  IF Len(c2[session_id]) > cap
      THEN [c2 EXCEPT ![session_id] = Take(@, cap)]
      ELSE c2

\* add_message: the store after the call
add_message(conv, cap, session_id, question, answer) ==
  LET c1 == IF session_id \notin DOMAIN conv THEN conv @@ (session_id :> <<>>) ELSE conv
      c2 == [c1 EXCEPT ![session_id] = Append(@, <<question, answer>>)]
  IN  IF Len(c2[session_id]) > cap
      THEN [c2 EXCEPT ![session_id] = LastN(@, cap)]
      ELSE c2

\* get_history: self.conversations.get(session_id, [])
get_history(conv, session_id) ==
  IF session_id \in DOMAIN conv THEN conv[session_id] ELSE <<>>

\* a variant that empties the whole store
clear_session_all(conv, session_id) ==
  IF session_id \in DOMAIN conv THEN <<>> ELSE conv

\* clear_session: the store after the call
clear_session(conv, session_id) ==
  IF session_id \in DOMAIN conv
  THEN [s \in (DOMAIN conv) \ {session_id} |-> conv[s]]
  ELSE conv

\* no add_message call is in progress
NoWriters == <<>>

TotalAdded == Len(added["s1"]) + Len(added["s2"])

MemoryInit ==
  /\ conversations = <<>>
  /\ max_history \in Caps
  /\ added = [s \in SessionIds |-> <<>>]
  /\ writers = NoWriters

\* when the session store is not part of the run
MemoryIdle ==
  /\ conversations = <<>>
  /\ max_history = DefaultMaxHistory
  /\ added = [s \in SessionIds |-> <<>>]
  /\ writers = NoWriters

AddMessage ==
  /\ pc = "memory"
  /\ TotalAdded < MaxAdds
  /\ \E s \in SessionIds, t \in MemoryTurns :
       /\ conversations' = add_message(conversations, max_history, s, t[1], t[2])
       /\ added' = [added EXCEPT ![s] = Append(@, t)]
  /\ UNCHANGED <<pc, max_history, writers, scopeVars, argVars, promptVars, parseVars, flagVars, pipeVars, handlerVars>>

ClearSession ==
  /\ pc = "memory"
  /\ \E s \in SessionIds :
       /\ conversations' = clear_session(conversations, s)
       /\ added' = [added EXCEPT ![s] = <<>>]
  /\ UNCHANGED <<pc, max_history, writers, scopeVars, argVars, promptVars, parseVars, flagVars, pipeVars, handlerVars>>

(***************************************************************************)
(* Two add_message calls on one session, statement by statement.  The      *)
(* store has no lock (memory_service.py 10-38), so the statements of two   *)
(* calls made from different threads interleave freely.                    *)
(***************************************************************************)
Writers == {"r1", "r2"}

\* the session both calls write to
SharedSession == "s1"

\* the turn each call appends
TurnOf(r) == IF r = "r1" THEN <<"q1", "a1">> ELSE <<"q2", "a2">>

\* the stores the two calls start from
RaceStores == { <<>>, SharedSession :> <<>>, SharedSession :> << <<"q0", "a0">> >> }

\* a variant whose membership test always finds the session missing
AfterMembershipCheckAlwaysCreate(conv, session_id) == "create"

\* if session_id not in self.conversations: the statement executed next
AfterMembershipCheck(conv, session_id) ==
  IF session_id \notin DOMAIN conv THEN "create" ELSE "append"

\* a call is between its first and its last statement
InProgress(r) == writers[r].at \notin {"check", "done"}

\* the call r executes a statement while the other call is in progress
Overlaps(r) == \E o \in Writers \ {r} : InProgress(o)

\* the statements of the pipeline and of the handler are not part of the run
RaceFrame ==
  /\ pc = "race"
  /\ UNCHANGED <<pc, max_history, scopeVars, argVars, promptVars, parseVars,
                 flagVars, pipeVars, handlerVars>>

Advance(r, position, local) ==
  writers' = [writers EXCEPT ![r] = [at |-> position, tail |-> local,
                                     overlapped |-> @.overlapped \/ Overlaps(r)]]

\* if session_id not in self.conversations:
CheckSession(r) ==
  /\ writers[r].at = "check"
  /\ Advance(r, AfterMembershipCheck(conversations, SharedSession), <<>>)
  /\ UNCHANGED <<conversations, added>>
  /\ RaceFrame

\* self.conversations[session_id] = []
CreateList(r) ==
  /\ writers[r].at = "create"
  /\ conversations' = [s \in DOMAIN conversations \cup {SharedSession} |->
                         IF s = SharedSession THEN <<>> ELSE conversations[s]]
  /\ Advance(r, "append", <<>>)
  /\ UNCHANGED added
  /\ RaceFrame

\* self.conversations[session_id].append((question, answer))
AppendTurn(r) ==
  /\ writers[r].at = "append"
  /\ conversations' = [conversations EXCEPT ![SharedSession] = Append(@, TurnOf(r))]
  /\ added' = [added EXCEPT ![SharedSession] = Append(@, TurnOf(r))]
  /\ Advance(r, "length", <<>>)
  /\ RaceFrame

\* if len(self.conversations[session_id]) > self.max_history:
CheckLength(r) ==
  /\ writers[r].at = "length"
  /\ Advance(r, IF Len(conversations[SharedSession]) > max_history
                THEN "slice" ELSE "done", <<>>)
  /\ UNCHANGED <<conversations, added>>
  /\ RaceFrame

\* self.conversations[session_id][-self.max_history:]
SliceTail(r) ==
  /\ writers[r].at = "slice"
  /\ Advance(r, "assign", LastN(conversations[SharedSession], max_history))
  /\ UNCHANGED <<conversations, added>>
  /\ RaceFrame

\* self.conversations[session_id] = <the slice>
AssignTail(r) ==
  /\ writers[r].at = "assign"
  /\ conversations' = [conversations EXCEPT ![SharedSession] = writers[r].tail]
  /\ Advance(r, "done", <<>>)
  /\ UNCHANGED added
  /\ RaceFrame

BothDone == \A r \in Writers : writers[r].at = "done"
(***************************************************************************)
(* ResponseType, ResponseTemplate (services/response_templates.py)         *)
(***************************************************************************)
\* a Python None where a str is expected, and where a list is expected
NoneStr  == <<"None">>
NoneList == <<NoneStr>>

\* ResponseType values
MOVIE_RECOMMENDATION   == "movie_recommendation"
TV_SHOW_RECOMMENDATION == "tv_show_recommendation"
SIMILAR_CONTENT        == "similar_content"
GENRE_FILTER           == "genre_filter"
DETAILED_INFO          == "detailed_info"
TRENDING               == "trending"
FOLLOW_UP_REFERENCE    == "follow_up_reference"
GENERAL_CHAT           == "general_chat"

ResponseTypes ==
  {MOVIE_RECOMMENDATION, TV_SHOW_RECOMMENDATION, SIMILAR_CONTENT, GENRE_FILTER,
   DETAILED_INFO, TRENDING, FOLLOW_UP_REFERENCE, GENERAL_CHAT}

\* response_type is None
NoType == "None"

follow_up_patterns ==
  << <<"h","o","w"," ","m","a","n","y">>, <<"b","a","o"," ","n","h","i","U+00EA","u">>, <<"U+0111","U+00E3"," ","U+0111","U+1EC1"," ","c","U+1EAD","p">>, <<"U+0111","U+00E3"," ","n","U+00F3","i">>, <<"U+1EDF"," ","t","r","U+00EA","n">>, <<"a","b","o","v","e">>,
     <<"t","h","o","s","e">>, <<"t","h","e","s","e">>, <<"t","h","e","m">>, <<"i","t">>, <<"t","h","a","t"," ","o","n","e">>, <<"w","h","i","c","h"," ","o","n","e">>,
     <<"t","h","e"," ","m","o","v","i","e","s">>, <<"t","h","e"," ","f","i","l","m","s">>, <<"t","h","e"," ","s","h","o","w","s">>, <<"p","h","i","m"," ","n","U+00E0","o">>, <<"c","U+00E1","i"," ","n","U+00E0","o">> >>

similar_keywords == << <<"s","i","m","i","l","a","r">>, <<"l","i","k","e">> >>

trending_keywords == << <<"t","r","e","n","d","i","n","g">>, <<"p","o","p","u","l","a","r">>, <<"h","o","t">> >>

detail_patterns ==
  << <<"d","e","t","a","i","l","s">>, <<"t","e","l","l"," ","m","e"," ","a","b","o","u","t">>, <<"t","e","l","l"," ","m","e"," ","m","o","r","e"," ","a","b","o","u","t"," ","m","o","v","i","e","/","t","v","-","s","h","o","w">>, <<"w","h","a","t"," ","i","s">>,
     <<"i","n","f","o","r","m","a","t","i","o","n"," ","a","b","o","u","t">>, <<"i","n","f","o"," ","a","b","o","u","t">>, <<"m","o","r","e"," ","a","b","o","u","t">> >>

genre_filter_keywords == << <<"g","e","n","r","e">>, <<"f","i","l","t","e","r">>, <<"t","y","p","e"," ","o","f">> >>

tv_type_words == << <<"t","v">>, <<"s","e","r","i","e","s">> >>

movie_type_words == << <<"m","o","v","i","e">> >>

tv_query_words == << <<"s","e","r","i","e","s">>, <<"s","h","o","w">>, <<"t","v">>, <<"e","p","i","s","o","d","e">>, <<"s","e","a","s","o","n">> >>

movie_query_words == << <<"m","o","v","i","e">>, <<"f","i","l","m">> >>

\* a variant that looks at the candidate types before the query rules
detect_response_type_types_first(q, ctx) ==
  LET query_lower == Lower(q)
      types == [i \in 1..Len(ctx) |-> Lower(ctx[i].type)]
  IN  IF Len(ctx) > 0 /\ \E i \in 1..Len(types) : ContainsAny(tv_type_words, types[i])
      THEN TV_SHOW_RECOMMENDATION
      ELSE IF Len(ctx) > 0 /\ \E i \in 1..Len(types) : ContainsAny(movie_type_words, types[i])
           THEN MOVIE_RECOMMENDATION
      ELSE IF ContainsAny(follow_up_patterns, query_lower) THEN FOLLOW_UP_REFERENCE
      ELSE IF ContainsAny(similar_keywords, query_lower) THEN SIMILAR_CONTENT
      ELSE IF ContainsAny(trending_keywords, query_lower) THEN TRENDING
      ELSE IF ContainsAny(detail_patterns, query_lower) THEN DETAILED_INFO
      ELSE IF ContainsAny(genre_filter_keywords, query_lower) THEN GENRE_FILTER
      ELSE IF ContainsAny(tv_query_words, query_lower) THEN TV_SHOW_RECOMMENDATION
      ELSE IF ContainsAny(movie_query_words, query_lower) THEN MOVIE_RECOMMENDATION
      ELSE GENERAL_CHAT

\* detect_response_type: the first rule that matches decides
detect_response_type(q, ctx) ==
  LET query_lower == Lower(q)
      types == [i \in 1..Len(ctx) |-> Lower(ctx[i].type)]
  IN  IF ContainsAny(follow_up_patterns, query_lower) THEN FOLLOW_UP_REFERENCE
      ELSE IF ContainsAny(similar_keywords, query_lower) THEN SIMILAR_CONTENT
      ELSE IF ContainsAny(trending_keywords, query_lower) THEN TRENDING
      ELSE IF ContainsAny(detail_patterns, query_lower) THEN DETAILED_INFO
      ELSE IF ContainsAny(genre_filter_keywords, query_lower) THEN GENRE_FILTER
      ELSE IF Len(ctx) > 0 /\ \E i \in 1..Len(types) : ContainsAny(tv_type_words, types[i])
           THEN TV_SHOW_RECOMMENDATION
      ELSE IF Len(ctx) > 0 /\ \E i \in 1..Len(types) : ContainsAny(movie_type_words, types[i])
           THEN MOVIE_RECOMMENDATION
      ELSE IF ContainsAny(tv_query_words, query_lower) THEN TV_SHOW_RECOMMENDATION
      ELSE IF ContainsAny(movie_query_words, query_lower) THEN MOVIE_RECOMMENDATION
      ELSE GENERAL_CHAT

\* format_context_for_prompt: one entry per item, or the no-context sentence
format_context_for_prompt(ctx) ==
  IF Len(ctx) = 0
  THEN [k |-> "No specific context available.", items |-> <<>>]
  ELSE [k |-> "**Available Content:**",
        items |-> [i \in 1..Len(ctx) |->
                     [n |-> i, title |-> ctx[i].title, year |-> ctx[i].year,
                      type |-> ctx[i].type, genre |-> ctx[i].genre,
                      rating |-> ctx[i].rating, description |-> ctx[i].description]]]

\* a profile: None, or a dict from field names to values
NoProfile == [none |-> TRUE]
IsNoProfile(p) == "none" \in DOMAIN p
\* `if user_profile:`  (None and the empty dict are false)
ProfileTruthy(p) == ~IsNoProfile(p) /\ DOMAIN p # {}
\* user_profile.get(field): None when the key is absent
GetStr(p, f)  == IF f \in DOMAIN p THEN p[f] ELSE NoneStr
\* user_profile.get(field, []): None only when the key holds None
GetList(p, f) == IF f \in DOMAIN p THEN p[f] ELSE <<>>
\* truth of a str value, and of a list value
Truthy(v)     == v # NoneStr /\ Len(v) > 0
TruthyList(v) == v # NoneList /\ Len(v) > 0

\* get_system_prompt: the base prompt, the profile block and the template
get_system_prompt(rtype, profile) ==
  [base |-> "You are an expert entertainment recommendation assistant",
   profile_context |-> IF ProfileTruthy(profile) THEN <<profile>> ELSE <<>>,
   type_specific |-> IF rtype \in ResponseTypes THEN rtype ELSE GENERAL_CHAT]

\* the answer of a history turn as it is put into the prompt
HistoryAnswer(a) ==
  IF Len(a) <= 500 THEN a
  ELSE SubSeq(a, 1, 400) \o <<".",".",".","[","c","o","n","t","i","n","u","e","d","]",".",".",".">> \o LastN(a, 100)

\* \b(\d+)\s*(?:movies?|films?|shows?|recommendations?)\b
number_pattern == Cat(<<WB, Grp(Rep(Cls(Digits), 1, TRUE)), Rep(Cls(Whitespace), 0, TRUE), Alt(<<Cat(<<Lit(<<"m","o","v","i","e">>), Opt(Lit(<<"s">>), TRUE)>>), Cat(<<Lit(<<"f","i","l","m">>), Opt(Lit(<<"s">>), TRUE)>>), Cat(<<Lit(<<"s","h","o","w">>), Opt(Lit(<<"s">>), TRUE)>>), Cat(<<Lit(<<"r","e","c","o","m","m","e","n","d","a","t","i","o","n">>), Opt(Lit(<<"s">>), TRUE)>>)>>), WB>>)

\* a variant that states the default number whatever the query asks for
CountInstructionAlwaysDefault(q, rtype) ==
  IF rtype = MOVIE_RECOMMENDATION \/ rtype = TV_SHOW_RECOMMENDATION
  THEN <<[k |-> "**CRITICAL**: The user did NOT specify a number. You MUST provide EXACTLY 5 recommendations.",
          n |-> 5]>>
  ELSE <<>>

\* the part of the user prompt that states the number of recommendations
CountInstruction(q, rtype) ==
  IF rtype = MOVIE_RECOMMENDATION \/ rtype = TV_SHOW_RECOMMENDATION
  THEN IF ~ReFound(number_pattern, Lower(q))
       THEN <<[k |-> "**CRITICAL**: The user did NOT specify a number. You MUST provide EXACTLY 5 recommendations.",
               n |-> 5]>>
       ELSE <<[k |-> "**CRITICAL**: The user requested {n} recommendations. You MUST provide EXACTLY {n} recommendations.",
               n |-> ToInt(ReGroup1(number_pattern, Lower(q)))]>>
  ELSE <<>>

\* create_structured_prompt: the system prompt and the parts of the user prompt
create_structured_prompt(q, ctx, history, rtype_arg, profile, name) ==
  LET rtype == IF rtype_arg = NoType THEN detect_response_type(q, ctx) ELSE rtype_arg
      shown == LastN(history, 5)
  IN  [system |-> get_system_prompt(rtype, profile),
       user |->
         [context |-> format_context_for_prompt(ctx),
          user_name |-> IF Truthy(name) THEN <<name>> ELSE <<>>,
          history |-> IF Len(history) > 0
                      THEN [i \in 1..Len(shown) |->
                              <<shown[i][1], HistoryAnswer(shown[i][2])>>]
                      ELSE <<>>,
          question |-> q,
          response_type |-> rtype,
          critical |-> CountInstruction(q, rtype),
          closing |-> "Please provide a helpful, engaging response following the guidelines above."]]

(***************************************************************************)
(* Catalogue items as the vector store returns them (payload and score)    *)
(***************************************************************************)
MkItem(title, genre, type, cast, country, score) ==
  [title |-> title, description |-> <<"p","l","o","t">>, genre |-> genre, year |-> 2010,
   type |-> type, rating |-> <<"P","G","-","1","3">>, cast |-> cast, country |-> country,
   score |-> score]

Inception   == MkItem(<<"I","n","c","e","p","t","i","o","n">>, <<"S","c","i","-","F","i",","," ","T","h","r","i","l","l","e","r">>, <<"M","o","v","i","e">>, <<"L","e","o","n","a","r","d","o"," ","D","i","C","a","p","r","i","o">>, <<"U","n","i","t","e","d"," ","S","t","a","t","e","s">>, 90)
TheMatrix   == MkItem(<<"T","h","e"," ","M","a","t","r","i","x">>, <<"A","c","t","i","o","n",","," ","S","c","i","-","F","i">>, <<"M","o","v","i","e">>, <<"K","e","a","n","u"," ","R","e","e","v","e","s">>, <<"U","n","i","t","e","d"," ","S","t","a","t","e","s">>, 80)
Saw         == MkItem(<<"S","a","w">>, <<"H","o","r","r","o","r">>, <<"M","o","v","i","e">>, <<"C","a","r","y"," ","E","l","w","e","s">>, <<"U","n","i","t","e","d"," ","S","t","a","t","e","s">>, 70)
DarkSeries  == MkItem(<<"D","a","r","k">>, <<"D","r","a","m","a",","," ","h","o","r","r","o","r">>, <<"T","V"," ","S","h","o","w">>, <<"L","o","u","i","s"," ","H","o","f","m","a","n","n">>, <<"G","e","r","m","a","n","y">>, 60)
Heat        == MkItem(<<"H","e","a","t">>, <<"A","c","t","i","o","n",","," ","C","r","i","m","e">>, <<"M","o","v","i","e">>, <<"A","l"," ","P","a","c","i","n","o">>, <<"U","n","i","t","e","d"," ","S","t","a","t","e","s">>, 50)
Clip        == MkItem(<<"C","l","i","p">>, <<"C","o","m","e","d","y">>, <<"U","n","k","n","o","w","n">>, <<>>, <<>>, 40)
Insomnia    == MkItem(<<"I","n","s","o","m","n","i","a">>, <<"C","r","i","m","e",","," ","T","h","r","i","l","l","e","r">>, <<"M","o","v","i","e">>, <<"A","l"," ","P","a","c","i","n","o">>, <<"U","n","i","t","e","d"," ","S","t","a","t","e","s">>, 50)
(***************************************************************************)
(* Calls of create_structured_prompt                                       *)
(***************************************************************************)
PromptFragments ==
  { <<"r","e","c","o","m","m","e","n","d">>, <<"3"," ","m","o","v","i","e","s">>, <<"1","0"," ","F","i","l","m","s">>, <<"2"," ","r","e","c","o","m","m","e","n","d","a","t","i","o","n","s">>,
    <<"t","o","p","1","0"," ","s","h","o","w","s">>, <<"s","o","m","e","t","h","i","n","g"," ","s","i","m","i","l","a","r">>, <<"I","n","c","e","p","t","i","o","n">>, <<"1","2"," "," ","s","h","o","w">> }

RECURSIVE PromptQueriesOf(_)
PromptQueriesOf(n) ==
  IF n = 0 THEN {}
  ELSE PromptFragments
         \cup {q \o <<" ">> \o f : q \in PromptQueriesOf(n - 1), f \in PromptFragments}

PromptQueries == PromptQueriesOf(MaxPromptFragments)

PromptContexts == { <<>>, <<Inception>>, <<Heat, DarkSeries>>, <<Clip>> }

PromptHistories == { <<>>, << <<<<"h","e","l","l","o">>, <<"*","*","T","i","t","l","e","*","*",":"," ","H","e","a","t">>>> >> }

CreateStructuredPromptCall ==
  /\ pc = "prompt"
  /\ prompt_data' = create_structured_prompt(query, context, chat_history,
                                             response_type, user_profile, user_name)
  /\ pc' = "prompt_done"
  /\ UNCHANGED <<scopeVars, memoryVars, argVars, context, response_type, parseVars,
               flagVars, pipeVars, handlerVars>>

PromptIdle ==
  /\ context = <<>>
  /\ response_type = NoType
  /\ prompt_data = <<>>

(***************************************************************************)
(* Calls of detect_response_type                                           *)
(***************************************************************************)
DetectFragments ==
  { <<"T","h","o","s","e">>, <<"s","i","m","i","l","a","r">>, <<"p","o","p","u","l","a","r">>, <<"w","h","a","t"," ","i","s">>, <<"g","e","n","r","e">>,
    <<"s","e","r","i","e","s">>, <<"f","i","l","m">>, <<"h","e","l","l","o">> }

RECURSIVE DetectQueriesOf(_)
DetectQueriesOf(n) ==
  IF n = 0 THEN {}
  ELSE DetectFragments
         \cup {q \o <<" ">> \o f : q \in DetectQueriesOf(n - 1), f \in DetectFragments}

DetectQueries == DetectQueriesOf(MaxDetectFragments)

\* no candidate, a movie, a show, both, and a candidate of unknown type
DetectContexts == { <<>>, <<Heat>>, <<DarkSeries>>, <<Heat, DarkSeries>>, <<Clip>> }

DetectResponseTypeCall ==
  /\ pc = "detect"
  /\ response_type' = detect_response_type(query, context)
  /\ pc' = "detect_done"
  /\ UNCHANGED <<scopeVars, memoryVars, argVars, context, prompt_data, parseVars,
                 flagVars, pipeVars, handlerVars>>
(***************************************************************************)
(* QdrantService.parse_query_with_llm, parse_query_regex                   *)
(* (services/qdrant_service.py)                                            *)
(***************************************************************************)
\* a Python None where an int is expected
NoneInt == -1

country_patterns ==
  << <<Cat(<<WB, Opt(Cat(<<Lit(<<"p","h","i","m">>), Rep(Cls(Whitespace), 1, TRUE)>>), TRUE), Lit(<<"m","U+1EF9">>), WB>>), <<"U","n","i","t","e","d"," ","S","t","a","t","e","s">>>>,
     <<Cat(<<WB, Opt(Cat(<<Lit(<<"p","h","i","m">>), Rep(Cls(Whitespace), 1, TRUE)>>), TRUE), Lit(<<"v","i","U+1EC7","t">>), WB>>), <<"V","i","e","t","n","a","m">>>>,
     <<Cat(<<WB, Opt(Cat(<<Lit(<<"p","h","i","m">>), Rep(Cls(Whitespace), 1, TRUE)>>), TRUE), Lit(<<"h","U+00E0","n">>), WB>>), <<"S","o","u","t","h"," ","K","o","r","e","a">>>>,
     <<Cat(<<WB, Alt(<<Lit(<<"a","m","e","r","i","c","a","n">>), Lit(<<"u","s","a">>), Lit(<<"u","s">>)>>), WB>>), <<"U","n","i","t","e","d"," ","S","t","a","t","e","s">>>>,
     <<Cat(<<WB, Lit(<<"k","o","r","e","a">>), Alt(<<Lit(<<"n">>), Cat(<<>>)>>), WB>>), <<"S","o","u","t","h"," ","K","o","r","e","a">>>>,
     <<Cat(<<WB, Lit(<<"v","i","e","t","n","a","m">>), Alt(<<Lit(<<"e","s","e">>), Cat(<<>>)>>), WB>>), <<"V","i","e","t","n","a","m">>>>,
     <<Cat(<<WB, Lit(<<"j","a","p","a","n">>), Alt(<<Lit(<<"e","s","e">>), Cat(<<>>)>>), WB>>), <<"J","a","p","a","n">>>>,
     <<Cat(<<WB, Lit(<<"c","h","i","n">>), Alt(<<Lit(<<"e","s","e">>), Lit(<<"a">>)>>), WB>>), <<"C","h","i","n","a">>>> >>

movie_type_pattern == Cat(<<WB, Alt(<<Cat(<<Lit(<<"m","o","v","i","e">>), Opt(Lit(<<"s">>), TRUE)>>), Lit(<<"p","h","i","m">>)>>), WB>>)
tv_type_pattern    == Cat(<<WB, Alt(<<Cat(<<Lit(<<"t","v">>), Rep(Cls(Whitespace), 0, TRUE), Lit(<<"s","h","o","w">>), Opt(Lit(<<"s">>), TRUE)>>), Lit(<<"s","e","r","i","e","s">>)>>), WB>>)
year_pattern       == Cat(<<Opt(Cat(<<Lit(<<"n","U+0103","m">>), Rep(Cls(Whitespace), 1, TRUE)>>), TRUE), Grp(Cat(<<Cls(Digits), Cls(Digits), Cls(Digits), Cls(Digits)>>))>>)

genre_patterns ==
  << <<Cat(<<WB, Alt(<<Lit(<<"h","U+00E0","n","h"," ","U+0111","U+1ED9","n","g">>), Lit(<<"a","c","t","i","o","n">>)>>), WB>>), <<"A","c","t","i","o","n">>>>,
     <<Cat(<<WB, Alt(<<Lit(<<"h","U+00E0","i">>), Lit(<<"c","o","m","e","d","y">>)>>), WB>>), <<"C","o","m","e","d","y">>>>,
     <<Cat(<<WB, Alt(<<Lit(<<"k","i","n","h"," ","d","U+1ECB">>), Lit(<<"h","o","r","r","o","r">>)>>), WB>>), <<"H","o","r","r","o","r">>>>,
     <<Cat(<<WB, Alt(<<Lit(<<"t","U+00EC","n","h"," ","c","U+1EA3","m">>), Lit(<<"r","o","m","a","n","c","e">>)>>), WB>>), <<"R","o","m","a","n","c","e">>>>,
     <<Cat(<<WB, Lit(<<"d","r","a","m","a">>), WB>>), <<"D","r","a","m","a">>>>,
     <<Cat(<<WB, Lit(<<"t","h","r","i","l","l","e","r">>), WB>>), <<"T","h","r","i","l","l","e","r">>>> >>

\* the value paired with the first pattern of the table that is found in
\* text, as a dict with that one key; the empty dict when none is found
FirstMatch(table, text, key) ==
  LET hits == {i \in 1..Len(table) : ReFound(table[i][1], text)}
  IN  IF hits = {} THEN <<>> ELSE key :> table[Min(hits)][2]

\* parse_query_regex: the dict of the filters found
parse_query_regex(q) ==
  LET lower == Lower(q)
      country == FirstMatch(country_patterns, lower, "country")
      type == IF ReFound(movie_type_pattern, lower) THEN "type" :> <<"M","o","v","i","e">>
              ELSE IF ReFound(tv_type_pattern, lower) THEN "type" :> <<"T","V"," ","S","h","o","w">>
              ELSE <<>>
      year == IF ReFound(year_pattern, q)
              THEN "year" :> ToInt(ReGroup1(year_pattern, q))
              ELSE <<>>
      genre == FirstMatch(genre_patterns, lower, "genre")
  IN  country @@ type @@ year @@ genre

\* a reply of the remote normalizer:
\*   kind    "raise" (the call raises), "none" (content is None) or "text"
\*   fence   how the content is wrapped: "none", "json" (```json), "bare" (```)
\*           or "other" (a fence with another language tag)
\*   valid   the wrapped text is valid JSON
\*   object  the JSON value is an object; obj holds its keys
\* in obj: optimized_summary is a str or None; filters is <<"dict", d>> or
\* <<"other">> (null or not an object); matched_fields is "list" (of str) or
\* "other" (null or not a list of str)
Reply(kind, fence, valid, object, obj) ==
  [kind |-> kind, fence |-> fence, valid |-> valid, object |-> object, obj |-> obj]

\* json.loads succeeds on the content after the fence is removed
JsonLoads(reply) == reply.fence \in {"none", "json", "bare"} /\ reply.valid

\* {k: v for k, v in filters.items() if v is not None}
DropNone(f) ==
  LET keep == {k \in DOMAIN f : IF k = "year" THEN f[k] # NoneInt ELSE f[k] # NoneStr}
  IN  [k \in keep |-> f[k]]

\* the statements of the try block raise
NormalizerRaises(reply) ==
  \/ reply.kind = "raise"
  \/ reply.kind = "none"
  \/ ~JsonLoads(reply)
  \/ ~reply.object
  \/ ("matched_fields" \in DOMAIN reply.obj /\ reply.obj.matched_fields # "list")
  \/ ("filters" \in DOMAIN reply.obj /\ reply.obj.filters[1] # "dict")

\* a variant whose fallback keeps no filters
parse_query_with_llm_no_regex(q, reply) ==
  IF NormalizerRaises(reply)
  THEN [text |-> q, filters |-> <<>>]
  ELSE [text |-> IF "optimized_summary" \in DOMAIN reply.obj
                 THEN reply.obj.optimized_summary ELSE q,
        filters |-> IF "filters" \in DOMAIN reply.obj
                    THEN DropNone(reply.obj.filters[2]) ELSE <<>>]

\* parse_query_with_llm: the pair (text to embed, filters)
parse_query_with_llm(q, reply) ==
  IF NormalizerRaises(reply)
  THEN [text |-> q, filters |-> parse_query_regex(q)]
  ELSE [text |-> IF "optimized_summary" \in DOMAIN reply.obj
                 THEN reply.obj.optimized_summary ELSE q,
        filters |-> IF "filters" \in DOMAIN reply.obj
                    THEN DropNone(reply.obj.filters[2]) ELSE <<>>]

\* replies of the remote normalizer
FullObject ==
  [optimized_summary |-> <<"k","o","r","e","a","n"," ","h","o","r","r","o","r">>,
   filters |-> <<"dict", [country |-> <<"S","o","u","t","h"," ","K","o","r","e","a">>, type |-> NoneStr,
                          year |-> NoneInt, genre |-> <<"H","o","r","r","o","r">>]>>,
   matched_fields |-> "list"]

NormalizerReplies ==
  { Reply("raise", "none", FALSE, FALSE, <<>>),
    Reply("none", "none", FALSE, FALSE, <<>>),
    Reply("text", "none", FALSE, FALSE, <<>>),
    Reply("text", "other", TRUE, TRUE, FullObject),
    Reply("text", "none", TRUE, FALSE, <<>>),
    Reply("text", "none", TRUE, TRUE, FullObject),
    Reply("text", "json", TRUE, TRUE, FullObject),
    Reply("text", "bare", TRUE, TRUE, FullObject),
    Reply("text", "none", TRUE, TRUE, <<>>),
    Reply("text", "none", TRUE, TRUE, [optimized_summary |-> <<"a","c","t","i","o","n"," ","f","i","l","m","s">>]),
    Reply("text", "none", TRUE, TRUE, [optimized_summary |-> NoneStr,
                                      filters |-> <<"dict", <<>> >>]),
    Reply("text", "none", TRUE, TRUE, [optimized_summary |-> <<"a","c","t","i","o","n"," ","f","i","l","m","s">>,
                                      filters |-> <<"other">>]),
    Reply("text", "json", TRUE, TRUE, [optimized_summary |-> <<"a","c","t","i","o","n"," ","f","i","l","m","s">>,
                                      filters |-> <<"dict", [year |-> 2020]>>,
                                      matched_fields |-> "other"]),
    Reply("text", "none", TRUE, TRUE, [filters |-> <<"dict", [type |-> <<"M","o","v","i","e">>, year |-> 2021]>>]) }

ParseQueries ==
  { <<"k","o","r","e","a","n"," ","h","o","r","r","o","r"," ","m","o","v","i","e","s"," ","2","0","2","0">>, <<"P","h","i","m"," ","H","U+00E0","n"," ","n","U+0103","m"," ","2","0","1","9">>, <<"U","S","A"," ","t","v"," ","s","h","o","w","s"," ","1","2","3","4","5">>,
    <<"I","n","c","e","p","t","i","o","n">>, <<"u","s"," ","c","o","m","e","d","y"," ","s","e","r","i","e","s">>, <<"a"," ","b","u","s"," ","d","r","a","m","a">>, <<"p","h","i","m"," ","m","U+1EF9"," ","h","U+00E0","n","h"," ","U+0111","U+1ED9","n","g">>,
    <<"J","a","p","a","n","e","s","e"," ","t","h","r","i","l","l","e","r"," ","T","V","s","h","o","w"," ","1","9","9","9","x">> }

ParseQueryWithLlmCall ==
  /\ pc = "parse"
  /\ \E reply \in NormalizerReplies :
       LET r == parse_query_with_llm(query, reply)
       IN  /\ llm_reply' = reply
           /\ base_query_for_search' = r.text
           /\ filters' = r.filters
  /\ pc' = "parse_done"
  /\ UNCHANGED <<scopeVars, memoryVars, argVars, promptVars, flagVars, pipeVars, handlerVars>>

\* the normalizer has not been called
NoReply == Reply("idle", "none", FALSE, FALSE, <<>>)

ParseIdle ==
  /\ llm_reply = NoReply
  /\ base_query_for_search = <<>>
  /\ filters = <<>>

(***************************************************************************)
(* Keyword lists of get_recommendation (services/langchain_service.py)     *)
(***************************************************************************)
\* langchain_service.py:116-120
vague_query_indicators ==
  <<
    <<"r","e","c","o","m","m","e","n","d">>,
    <<"s","u","g","g","e","s","t">>,
    <<"s","h","o","w"," ","m","e">>,
    <<"g","i","v","e"," ","m","e">>,
    <<"f","i","n","d"," ","m","e">>,
    <<"w","h","a","t">>,
    <<"a","n","y">>,
    <<"s","o","m","e">>,
    <<"m","o","v","i","e","s">>,
    <<"f","i","l","m","s">>,
    <<"s","h","o","w","s">>,
    <<"g","U+00B7","U+00AA","U+00A3","i"," ","U+221A","U+03A9">>,
    <<"U+0192","U+00EB","U+00B7","U+00AA","U+00C5"," ","x","u","U+00B7","U+222B","U+2022","t">>,
    <<"t","U+221A","U+00A8","m">>,
    <<"p","h","i","m">>,
    <<"p","h","i","m"," ","g","U+221A","U+00A8">>
  >>

\* langchain_service.py:121-125
specific_detail_keywords ==
  <<
    <<"g","e","n","r","e">>,
    <<"y","e","a","r">>,
    <<"a","c","t","o","r">>,
    <<"d","i","r","e","c","t","o","r">>,
    <<"c","o","u","n","t","r","y">>,
    <<"r","a","t","i","n","g">>,
    <<"a","c","t","i","o","n">>,
    <<"c","o","m","e","d","y">>,
    <<"d","r","a","m","a">>,
    <<"t","h","r","i","l","l","e","r">>,
    <<"h","o","r","r","o","r">>,
    <<"r","o","m","a","n","c","e">>,
    <<"t","h","U+00B7","U+00AA","U+00C9"," ","l","o","U+00B7","U+222B","U+00B0","i">>,
    <<"n","U+0192","U+00C9","m">>,
    <<"d","i","U+00B7","U+00AA","U+00D6","n"," ","v","i","U+221A","U+2122","n">>,
    <<"U+0192","U+00EB","U+00B7","U+222B","U+00B0","o"," ","d","i","U+00B7","U+00AA","U+00D6","n">>
  >>

\* langchain_service.py:293-296
asking_for_others_keywords ==
  <<
    <<"o","t","h","e","r">>,
    <<"m","o","r","e">>,
    <<"d","i","f","f","e","r","e","n","t">>,
    <<"a","n","o","t","h","e","r">>,
    <<"e","l","s","e">>,
    <<"a","d","d","i","t","i","o","n","a","l">>,
    <<"k","h","U+221A","U+00B0","c">>,
    <<"t","h","U+221A","U+2122","m">>,
    <<"n","U+00B7","U+00AA","U+00D8","a">>
  >>

(***************************************************************************)
(* LangChainRecommendationService.get_recommendation                       *)
(* (services/langchain_service.py): the steps between the external calls   *)
(***************************************************************************)
\* [g for g in xs if g]
Clean(xs) == SelectSeq(xs, LAMBDA g : Truthy(g))

\* [g.lower() for g in xs]
LowerAll(xs) == [i \in 1..Len(xs) |-> Lower(xs[i])]

\* (v or '')
OrEmpty(v) == IF v = NoneStr THEN <<>> ELSE v

\* the query names no detail and holds a vague-request word
is_vague_query(q) ==
  /\ ContainsAny(vague_query_indicators, Lower(q))
  /\ ~ContainsAny(specific_detail_keywords, Lower(q))

\* the cleaned list stored under a key, empty when the stored value is falsy
CleanList(p, f) == IF TruthyList(GetList(p, f)) THEN Clean(GetList(p, f)) ELSE <<>>

\* profile_parts of a vague query
profile_parts(p) ==
  LET favorite_genres == CleanList(p, "favorite_genres")
      favorite_actors == CleanList(p, "favorite_actors")
      mood == GetStr(p, "mood_preference")
      watch_style == GetStr(p, "watch_style")
  IN  (IF Len(favorite_genres) > 0
       THEN <<Join(<<","," ">>, favorite_genres) \o <<" ","m","o","v","i","e","s">>>> ELSE <<>>)
      \o (IF Len(favorite_actors) > 0
          THEN <<<<"s","t","a","r","r","i","n","g"," ">> \o Join(<<","," ">>, Take(favorite_actors, 3))>> ELSE <<>>)
      \o (IF Truthy(mood) THEN <<mood>> ELSE <<>>)
      \o (IF Truthy(watch_style) /\ Len(watch_style) < 80 THEN <<watch_style>> ELSE <<>>)

\* query_enhancements
query_enhancements(q, p) ==
  LET favorite_genres == CleanList(p, "favorite_genres")
      favorite_actors == CleanList(p, "favorite_actors")
      mood == GetStr(p, "mood_preference")
      prefs == GetStr(p, "preferences")
  IN  IF is_vague_query(q)
      THEN IF Len(profile_parts(p)) = 0 /\ Len(favorite_genres) > 0
           THEN <<Join(<<","," ">>, Take(favorite_genres, 3)) \o <<" ","g","e","n","r","e","s">>>>
           ELSE <<>>
      ELSE (IF Len(favorite_genres) > 0
            THEN <<<<"p","r","e","f","e","r"," ">> \o Join(<<","," ">>, Take(favorite_genres, 3)) \o <<" ","g","e","n","r","e","s">>>>
            ELSE <<>>)
           \o (IF Len(favorite_actors) > 0
               THEN <<<<"s","t","a","r","r","i","n","g"," ">> \o Join(<<","," ">>, Take(favorite_actors, 2))>> ELSE <<>>)
           \o (IF Truthy(mood) THEN <<mood \o <<" ","m","o","o","d">>>> ELSE <<>>)
           \o (IF Truthy(prefs) /\ Len(prefs) < 100 THEN <<prefs>> ELSE <<>>)

\* a variant that appends the enhancements without asking for a profile
EnhanceQueryUnguarded(q, p) ==
  q \o <<" ","(">> \o Join(<<","," ">>, query_enhancements(q, p)) \o <<")">>

\* the value of enhanced_query after the enrichment
EnhanceQuery(q, p) ==
  IF ~ProfileTruthy(p) THEN q
  ELSE IF Len(query_enhancements(q, p)) > 0
       THEN q \o <<" ","(">> \o Join(<<","," ">>, query_enhancements(q, p)) \o <<")">>
       ELSE IF is_vague_query(q) /\ Len(profile_parts(p)) > 0
            THEN Join(<<" ">>, profile_parts(p))
            ELSE q

\* the conditions of the Qdrant filter: country, type and year when truthy
query_filter(f) ==
  LET keep == {k \in DOMAIN f \cap {"country", "type", "year"} :
                 IF k = "year" THEN f[k] # 0 ELSE Len(f[k]) > 0}
  IN  [k \in keep |-> f[k]]

title_bold_pattern     == Cat(<<Lit(<<"*","*","T","i","t","l","e","*","*",":">>), Rep(Cls(Whitespace), 0, TRUE), Lit(<<"*","*">>), Grp(Rep(NotCls({"*"}), 1, TRUE)), Lit(<<"*","*">>)>>)
title_plain_pattern    == Cat(<<Lit(<<"*","*","T","i","t","l","e","*","*",":">>), Rep(Cls(Whitespace), 0, TRUE), Grp(Rep(NotCls({"\n"} \cup {"*"}), 1, FALSE)), Alt(<<Lit(<<"\n">>), EOL>>)>>)
title_line_pattern     == Cat(<<Lit(<<"*","*","T","i","t","l","e","*","*",":">>), Rep(Cls(Whitespace), 0, TRUE), Opt(Lit(<<"*">>), TRUE), Opt(Lit(<<"*">>), TRUE), Grp(Rep(NotCls({"*"} \cup {"\n"}), 1, FALSE)), Alt(<<Lit(<<"*","*">>), EOL>>)>>)
numbered_title_pattern == Cat(<<Rep(Cls(Digits), 1, TRUE), Lit(<<".">>), Rep(Cls(Whitespace), 0, TRUE), Lit(<<"*","*">>), Grp(Rep(NotCls({"*"}), 1, TRUE)), Lit(<<"*","*">>)>>)

\* a variant with the first extraction method alone
TitlesOfAnswerBoldOnly(a) ==
  {Lower(Strip(t)) : t \in Range(ReFindAll(title_bold_pattern, a, 1))}

\* a variant whose second and third method keep the short titles
TitlesOfAnswerUnfiltered(a) ==
  LET bold     == {Lower(Strip(t)) : t \in Range(ReFindAll(title_bold_pattern, a, 1))}
      plain    == {Strip(RemoveStarPairs(t)) : t \in Range(ReFindAll(title_plain_pattern, a, 1))}
      lines    == {l \in Range(SplitOn(a, "\n")) :
                     IsSubstr(<<"*","*","T","i","t","l","e","*","*",":">>, l) /\ ReFound(title_line_pattern, l)}
      inline   == {Strip(ReGroup1(title_line_pattern, l)) : l \in lines}
      numbered == {Lower(Strip(t)) : t \in Range(ReFindAll(numbered_title_pattern, a, 1))}
  IN  bold \cup {Lower(t) : t \in plain \cup inline} \cup numbered

\* the titles the four extraction methods find in one answer
TitlesOfAnswer(a) ==
  LET bold     == {Lower(Strip(t)) : t \in Range(ReFindAll(title_bold_pattern, a, 1))}
      plain    == {Strip(RemoveStarPairs(t)) : t \in Range(ReFindAll(title_plain_pattern, a, 1))}
      lines    == {l \in Range(SplitOn(a, "\n")) :
                     IsSubstr(<<"*","*","T","i","t","l","e","*","*",":">>, l) /\ ReFound(title_line_pattern, l)}
      inline   == {Strip(ReGroup1(title_line_pattern, l)) : l \in lines}
      numbered == {Lower(Strip(t)) : t \in Range(ReFindAll(numbered_title_pattern, a, 1))}
  IN  bold \cup {Lower(t) : t \in {c \in plain \cup inline : Len(c) > 2}} \cup numbered

\* excluded_titles: the titles found in the answers of the history
ExtractExcludedTitles(history) ==
  UNION {TitlesOfAnswer(history[i][2]) : i \in 1..Len(history)}

\* the query asks for other or more titles
asking_for_others(q) == ContainsAny(asking_for_others_keywords, Lower(q))

\* a search result is its payload together with its score
NoPayload == [score |-> 0]
HasPayload(r) == DOMAIN r # {"score"}
Field(r, f, default) == IF f \in DOMAIN r THEN r[f] ELSE default
TitleOf(r) == Field(r, "title", <<"U","n","k","n","o","w","n">>)

\* the entry of the candidate list made from a search result
ContextEntry(r) ==
  [title |-> TitleOf(r),
   description |-> Field(r, "description", <<"N","o"," ","d","e","s","c","r","i","p","t","i","o","n"," ","a","v","a","i","l","a","b","l","e">>),
   genre |-> Field(r, "genre", <<>>),
   year |-> Field(r, "year", <<>>),
   type |-> Field(r, "type", <<"U","n","k","n","o","w","n">>),
   rating |-> Field(r, "rating", <<>>),
   cast |-> Field(r, "cast", <<>>),
   country |-> Field(r, "country", <<>>),
   score |-> r.score]

\* a variant that compares the title as it is spelled
IsExcludedAsSpelled(title, excluded) == title \in excluded

\* title.lower() in excluded_titles
IsExcluded(title, excluded) == Lower(title) \in excluded

\* the candidate list built from the primary search
PrimaryContext(results, excluded) ==
  LET kept == SelectSeq(results, LAMBDA r : HasPayload(r) /\ ~IsExcluded(TitleOf(r), excluded))
  IN  [i \in 1..Len(kept) |-> ContextEntry(kept[i])]

\* a variant without the check of the titles already held
BackfillAcceptsDuplicates(ctx, r, excluded) ==
  /\ HasPayload(r)
  /\ ~IsExcluded(TitleOf(r), excluded)

\* a backfill loop appends the result
BackfillAccepts(ctx, r, excluded) ==
  /\ HasPayload(r)
  /\ ~IsExcluded(TitleOf(r), excluded)
  /\ ~\E i \in 1..Len(ctx) : Lower(ctx[i].title) = Lower(TitleOf(r))

\* a backfill loop: append until the list holds 5 candidates
RECURSIVE Backfill(_, _, _)
Backfill(ctx, results, excluded) ==
  IF Len(results) = 0 \/ Len(ctx) >= 5 THEN ctx
  ELSE Backfill(IF BackfillAccepts(ctx, results[1], excluded)
                THEN Append(ctx, ContextEntry(results[1])) ELSE ctx,
                Tail(results), excluded)

\* the profile lists read by the rerank step
RerankLists == {"favorite_genres", "disliked_genres", "favorite_actors"}

\* iterating a list that is None raises
RerankRaises(p) ==
  ProfileTruthy(p) /\ \E f \in RerankLists : GetList(p, f) = NoneList

\* a variant that keeps the candidates of a disliked genre
DislikedFilterKeepsAll(ctx, disliked_genres) == ctx

\* the candidates whose genre holds none of the disliked genres
DislikedFilter(ctx, disliked_genres) ==
  IF Len(disliked_genres) > 0
  THEN SelectSeq(ctx, LAMBDA c :
         ~\E i \in 1..Len(disliked_genres) :
            IsSubstr(disliked_genres[i], Lower(OrEmpty(c.genre))))
  ELSE ctx

Count(xs, text) == Cardinality({i \in 1..Len(xs) : IsSubstr(xs[i], text)})
BoolInt(b) == IF b THEN 1 ELSE 0

\* country_match of comprehensive_match_score
CountryMatch(language_prefs, country_str) ==
  IF Len(language_prefs) > 0
  THEN LET lang_countries == SplitOn(language_prefs, ",")
       IN  BoolInt(\E i \in 1..Len(lang_countries) :
                     /\ Strip(lang_countries[i]) # <<>>
                     /\ \/ IsSubstr(Strip(lang_countries[i]), country_str)
                        \/ IsSubstr(country_str, Strip(lang_countries[i])))
  ELSE 0

comprehensive_match_score(item, favorite_genres, favorite_actors, language_prefs) ==
  LET genre_matches == Count(favorite_genres, Lower(OrEmpty(item.genre)))
      actor_matches == Count(favorite_actors, Lower(OrEmpty(item.cast)))
  IN  <<BoolInt(genre_matches > 0), genre_matches,
        BoolInt(actor_matches > 0), actor_matches,
        CountryMatch(language_prefs, Lower(OrEmpty(item.country))), item.score>>

\* tuple comparison
TupleLess(a, b) ==
  \E k \in 1..Len(a) : a[k] < b[k] /\ \A j \in 1..(k - 1) : a[j] = b[j]

\* a variant that sorts ascending and then reverses the list, which turns
\* the order of equal keys around
SortAscendingReversed(xs, keys) ==
  LET Rank(i) == 1 + Cardinality({j \in 1..Len(xs) : TupleLess(keys[i], keys[j])})
                   + Cardinality({j \in (i + 1)..Len(xs) : keys[j] = keys[i]})
  IN  [r \in 1..Len(xs) |-> xs[CHOOSE i \in 1..Len(xs) : Rank(i) = r]]

\* list.sort(key=..., reverse=True) given the keys: a stable descending sort
SortDescending(xs, keys) ==
  LET Rank(i) == 1 + Cardinality({j \in 1..Len(xs) : TupleLess(keys[i], keys[j])})
                   + Cardinality({j \in 1..(i - 1) : keys[j] = keys[i]})
  IN  [r \in 1..Len(xs) |-> xs[CHOOSE i \in 1..Len(xs) : Rank(i) = r]]

\* the rerank step: the dislike filter, then the sort by profile match
Rerank(ctx, p) ==
  IF ~ProfileTruthy(p) THEN ctx
  ELSE LET favorite_genres == LowerAll(Clean(GetList(p, "favorite_genres")))
           disliked_genres == LowerAll(Clean(GetList(p, "disliked_genres")))
           favorite_actors == LowerAll(Clean(GetList(p, "favorite_actors")))
           language_prefs  == Lower(OrEmpty(GetStr(p, "language_preference")))
           kept == DislikedFilter(ctx, disliked_genres)
           keys == [i \in 1..Len(kept) |->
                      comprehensive_match_score(kept[i], favorite_genres,
                                                favorite_actors, language_prefs)]
       IN  SortDescending(kept, keys)

\* a variant whose except clause reports the type "default"
ErrorResultAsDefault ==
  [answer |-> <<"I"," ","a","p","o","l","o","g","i","z","e",","," ","b","u","t"," ","I","'","m"," ","h","a","v","i","n","g"," ","t","r","o","u","b","l","e"," ","g","e","n","e","r","a","t","i","n","g"," ","a"," ","r","e","c","o","m","m","e","n","d","a","t","i","o","n"," ","r","i","g","h","t"," ","n","o","w",".">>,
   sources |-> <<>>, chat_history |-> <<>>, response_type |-> "default"]

\* the response returned when an exception is caught
ErrorResult ==
  [answer |-> <<"I"," ","a","p","o","l","o","g","i","z","e",","," ","b","u","t"," ","I","'","m"," ","h","a","v","i","n","g"," ","t","r","o","u","b","l","e"," ","g","e","n","e","r","a","t","i","n","g"," ","a"," ","r","e","c","o","m","m","e","n","d","a","t","i","o","n"," ","r","i","g","h","t"," ","n","o","w",".">>,
   sources |-> <<>>, chat_history |-> <<>>, response_type |-> "error"]

\* a variant that marks the response with a type of its own
NoResultsResultOwnType(history) ==
  [answer |-> <<"I"," ","a","p","o","l","o","g","i","z","e",","," ","b","u","t"," ","I"," ","c","o","u","l","d","n","'","t"," ","f","i","n","d"," ","a","n","y"," ","r","e","l","e","v","a","n","t"," ","r","e","c","o","m","m","e","n","d","a","t","i","o","n","s"," ","f","o","r"," ","y","o","u","r"," ","q","u","e","r","y","."," ","C","o","u","l","d"," ","y","o","u"," ","t","r","y"," ","r","e","p","h","r","a","s","i","n","g"," ","o","r"," ","a","s","k","i","n","g"," ","a","b","o","u","t"," ","a"," ","d","i","f","f","e","r","e","n","t"," ","g","e","n","r","e",","," ","r","e","l","e","a","s","e"," ","y","e","a","r",","," ","r","e","g","i","o","n"," ","o","r"," ","t","y","p","e"," ","o","f"," ","c","o","n","t","e","n","t","?">>,
   sources |-> <<>>, chat_history |-> history, response_type |-> "no_results"]

\* the response returned when no candidate is left
NoResultsResult(history) ==
  [answer |-> <<"I"," ","a","p","o","l","o","g","i","z","e",","," ","b","u","t"," ","I"," ","c","o","u","l","d","n","'","t"," ","f","i","n","d"," ","a","n","y"," ","r","e","l","e","v","a","n","t"," ","r","e","c","o","m","m","e","n","d","a","t","i","o","n","s"," ","f","o","r"," ","y","o","u","r"," ","q","u","e","r","y","."," ","C","o","u","l","d"," ","y","o","u"," ","t","r","y"," ","r","e","p","h","r","a","s","i","n","g"," ","o","r"," ","a","s","k","i","n","g"," ","a","b","o","u","t"," ","a"," ","d","i","f","f","e","r","e","n","t"," ","g","e","n","r","e",","," ","r","e","l","e","a","s","e"," ","y","e","a","r",","," ","r","e","g","i","o","n"," ","o","r"," ","t","y","p","e"," ","o","f"," ","c","o","n","t","e","n","t","?">>,
   sources |-> <<>>, chat_history |-> history, response_type |-> "error"]

\* the prompt of the path without templates
SimplePrompt(q, ctx) ==
  [user |-> [context |-> format_context_for_prompt(ctx), question |-> q]]

(***************************************************************************)
(* get_recommendation as steps that end at its external calls              *)
(***************************************************************************)
Untitled == [genre |-> <<"H","o","r","r","o","r">>, year |-> 2004, type |-> <<"M","o","v","i","e">>, score |-> 30]
SawShouted == MkItem(<<"S","A","W">>, <<"H","O","R","R","O","R",","," ","T","h","r","i","l","l","e","r">>, <<"M","o","v","i","e">>, <<"C","a","r","y"," ","E","l","w","e","s">>, <<>>, 95)

\* result lists of the vector store; the first holds one title twice
SearchResults ==
  { <<>>,
    <<TheMatrix, DarkSeries, Inception, Clip, Heat, Saw, TheMatrix>>,
    <<NoPayload, SawShouted, Untitled, Heat, Insomnia, Clip>> }

\* replies of the remote normalizer to the calls of the pipeline
PipelineReplies ==
  { Reply("raise", "none", FALSE, FALSE, <<>>),
    Reply("text", "json", TRUE, TRUE, FullObject),
    Reply("text", "none", TRUE, TRUE, [optimized_summary |-> <<>>]),
    Reply("text", "none", TRUE, TRUE, [optimized_summary |-> NoneStr,
                                      filters |-> <<"dict", <<>> >>]) }

\* contents of the chat completion
LlmAnswers == { <<>>, <<"*","*","T","i","t","l","e","*","*",":"," ","*","*","H","e","a","t","*","*">> }

\* use_template and use_llm_parsing of the call
PipelineFlags == { <<TRUE, TRUE>>, <<TRUE, FALSE>>, <<FALSE, TRUE>> }

PipelineQueries ==
  { <<"r","e","c","o","m","m","e","n","d"," ","m","o","v","i","e","s">>, <<"m","o","r","e"," ","h","o","r","r","o","r"," ","m","o","v","i","e","s">>, <<"a","n","o","t","h","e","r"," ","f","i","l","m"," ","l","i","k","e"," ","H","e","a","t">>, <<"D","a","r","k">> }

PipelineHistories ==
  { <<>>,
    << <<<<"r","e","c","o","m","m","e","n","d"," ","m","o","v","i","e","s">>, <<"1","."," ","*","*","H","e","a","t","*","*","\n","*","*","T","i","t","l","e","*","*",":"," ","*","*","I","n","c","e","p","t","i","o","n","*","*","\n">>>> >>,
    << <<<<"h","i">>, <<"*","*","T","i","t","l","e","*","*",":"," ","s","a","w","\n","*","*","T","i","t","l","e","*","*",":"," ","T","h","e"," ","M","a","t","r","i","x">>>> >> }

\* a stored profile with the ten keys of the users of MOCK_DATABASE
\* (routers/auth.py), its texts and lists shortened
TestUser ==
  [preferences |-> <<"l","i","g","h","t","-","h","e","a","r","t","e","d"," ","c","o","m","e","d","i","e","s">>,
   favorite_genres |-> <<<<"c","o","m","e","d","y">>, <<"d","r","a","m","a">>>>,
   disliked_genres |-> <<<<"h","o","r","r","o","r">>, <<"e","x","t","r","e","m","e"," ","v","i","o","l","e","n","c","e">>>>,
   favorite_actors |-> <<<<"E","m","m","a"," ","S","t","o","n","e">>, <<"A","l"," ","P","a","c","i","n","o">>>>,
   watch_style |-> <<"f","e","e","l","-","g","o","o","d"," ","e","n","d","i","n","g","s">>,
   mood_preference |-> <<"u","p","l","i","f","t","i","n","g">>,
   recently_watched |-> <<<<"L","a"," ","L","a"," ","L","a","n","d">>>>,
   watching_with |-> <<"p","a","r","t","n","e","r">>,
   time_available |-> <<"1",".","5","-","2"," ","h","o","u","r","s">>,
   language_preference |-> <<"E","n","g","l","i","s","h",","," ","G","e","r","m","a","n">>]

\* the profile after an update that stores an empty disliked genre
BlankDislike ==
  [TestUser EXCEPT !.disliked_genres = <<<<>>>>, !.favorite_genres = <<>>,
                   !.favorite_actors = <<>>, !.language_preference = <<>>]

\* the empty dict
EmptyProfile == <<>>

\* a stored profile whose fields are null, empty strings or empty lists
NullFields ==
  [preferences |-> <<>>,
   favorite_genres |-> NoneList,
   disliked_genres |-> <<>>,
   favorite_actors |-> <<<<>>>>,
   mood_preference |-> NoneStr,
   watch_style |-> <<>>,
   language_preference |-> NoneStr]

PipelineProfiles == { NoProfile, EmptyProfile, TestUser, BlankDislike, NullFields }

\* the except clause of get_recommendation
Fail(step) ==
  /\ raised' = step
  /\ result' = ErrorResult
  /\ pc' = "gr_done"

SearchCall(text, limit, ok, results) ==
  [query_vector |-> text, query_filter |-> query_filter(filters), limit |-> limit,
   ok |-> ok, results |-> results]

\* the enrichment and the call of the normalizer
NormalizeQuery ==
  /\ pc = "gr_normalize"
  /\ LET eq == EnhanceQuery(query, user_profile)
     IN  /\ enhanced_query' = eq
         /\ IF use_llm_parsing
            THEN \E reply \in PipelineReplies :
                   LET r == parse_query_with_llm(eq, reply)
                   IN  /\ llm_reply' = reply
                       /\ IF r.text = NoneStr
                          THEN /\ Fail("optimized_query")
                               /\ UNCHANGED <<base_query_for_search, filters>>
                          ELSE /\ base_query_for_search' = r.text
                               /\ filters' = r.filters
                               /\ pc' = "gr_retrieve"
                               /\ UNCHANGED <<result, raised>>
            ELSE /\ base_query_for_search' = eq
                 /\ filters' = <<>>
                 /\ pc' = "gr_retrieve"
                 /\ UNCHANGED <<llm_reply, result, raised>>
  /\ UNCHANGED <<scopeVars, memoryVars, argVars, promptVars, flagVars,
                 excluded_titles, searches, reranked, handlerVars>>

\* the embedding of the query, the title extraction, the primary search,
\* the exclusion of the extracted titles and the rerank step
PrimaryRetrieval ==
  /\ pc = "gr_retrieve"
  /\ LET excluded == ExtractExcludedTitles(chat_history)
         diverse == asking_for_others(query) /\ excluded # {}
         text == IF diverse
                 THEN base_query_for_search \o <<" ","d","i","f","f","e","r","e","n","t"," ","v","a","r","i","e","t","y"," ","d","i","v","e","r","s","e">>
                 ELSE base_query_for_search
         search_limit == IF diverse THEN 30 ELSE IF asking_for_others(query) THEN 20 ELSE 10
     IN  \/ /\ Fail("embed_query")
            /\ UNCHANGED <<excluded_titles, searches, reranked, context>>
         \/ /\ excluded_titles' = excluded
            /\ searches' = Append(searches, SearchCall(text, search_limit, FALSE, <<>>))
            /\ Fail("search")
            /\ UNCHANGED <<reranked, context>>
         \/ \E results \in SearchResults :
              /\ Len(results) <= search_limit
              /\ excluded_titles' = excluded
              /\ searches' = Append(searches, SearchCall(text, search_limit, TRUE, results))
              /\ IF RerankRaises(user_profile)
                 THEN /\ Fail("rerank")
                      /\ UNCHANGED <<reranked, context>>
                 ELSE LET ctx == Rerank(PrimaryContext(results, excluded), user_profile)
                      IN  /\ reranked' = ctx
                          /\ context' = ctx
                          /\ pc' = IF Len(ctx) < 5 /\ diverse THEN "gr_supplement"
                                   ELSE IF Len(ctx) < 5 THEN "gr_broaden"
                                   ELSE "gr_generate"
                          /\ UNCHANGED <<result, raised>>
  /\ UNCHANGED <<scopeVars, memoryVars, argVars, response_type, prompt_data, parseVars,
                 flagVars, enhanced_query, handlerVars>>

\* a backfill search with the given text and limit; pc ends at `next`
\* while fewer than 5 candidates are held and `again` is set
BackfillSearch(text, limit, again) ==
  /\ \/ /\ Fail("embed_query")
        /\ UNCHANGED <<searches, context>>
     \/ /\ searches' = Append(searches, SearchCall(text, limit, FALSE, <<>>))
        /\ Fail("search")
        /\ UNCHANGED context
     \/ \E results \in SearchResults :
          /\ Len(results) <= limit
          /\ searches' = Append(searches, SearchCall(text, limit, TRUE, results))
          /\ context' = Backfill(context, results, excluded_titles)
          /\ pc' = IF again /\ Len(context') < 5 THEN "gr_broaden" ELSE "gr_generate"
          /\ UNCHANGED <<result, raised>>
  /\ UNCHANGED <<scopeVars, memoryVars, argVars, response_type, prompt_data, parseVars,
                 flagVars, enhanced_query, excluded_titles, reranked, handlerVars>>

\* a variant that repeats the text and the limit of the diverse primary search
SupplementarySearchDiverse ==
  /\ pc = "gr_supplement"
  /\ BackfillSearch(base_query_for_search \o <<" ","d","i","f","f","e","r","e","n","t"," ","v","a","r","i","e","t","y"," ","d","i","v","e","r","s","e">>, 30, TRUE)

\* the additional search made when other titles are asked for
SupplementarySearch ==
  /\ pc = "gr_supplement"
  /\ BackfillSearch(base_query_for_search \o <<" ","a","l","t","e","r","n","a","t","i","v","e"," ","o","p","t","i","o","n","s">>, 15, TRUE)

\* the broader search made when fewer than 5 candidates are held
BroaderSearch ==
  /\ pc = "gr_broaden"
  /\ BackfillSearch(IF Len(base_query_for_search) = 0 THEN <<"p","o","p","u","l","a","r"," ","m","o","v","i","e","s">>
                    ELSE base_query_for_search, 10, FALSE)

\* the selection of the response type, the prompt and the chat completion
Generate ==
  /\ pc = "gr_generate"
  /\ LET ctx == Take(context, IF Len(context) > 5 THEN Len(context) ELSE 5)
         rtype == IF use_template THEN detect_response_type(query, ctx) ELSE GENERAL_CHAT
     IN  /\ context' = ctx
         /\ IF Len(ctx) = 0
            THEN /\ result' = NoResultsResult(chat_history)
                 /\ pc' = "gr_done"
                 /\ UNCHANGED <<response_type, prompt_data, raised>>
            ELSE /\ response_type' = rtype
                 /\ prompt_data' =
                      IF use_template
                      THEN create_structured_prompt(query, ctx, chat_history, rtype,
                                                    user_profile, user_name)
                      ELSE SimplePrompt(query, ctx)
                 /\ \/ Fail("llm")
                    \/ \E a \in LlmAnswers :
                         /\ result' = [answer |-> a, sources |-> ctx,
                                       chat_history |-> chat_history,
                                       response_type |-> IF use_template THEN rtype
                                                         ELSE "default"]
                         /\ pc' = "gr_done"
                         /\ UNCHANGED raised
  /\ UNCHANGED <<scopeVars, memoryVars, argVars, parseVars, flagVars, enhanced_query,
                 excluded_titles, searches, reranked, handlerVars>>

NoResult == [none |-> TRUE]

PipelineIdle ==
  /\ use_template = TRUE
  /\ use_llm_parsing = TRUE
  /\ enhanced_query = <<>>
  /\ excluded_titles = {}
  /\ searches = <<>>
  /\ reranked = <<>>
  /\ result = NoResult
  /\ raised = "none"

(***************************************************************************)
(* The title extraction of get_recommendation on its own                   *)
(***************************************************************************)
\* title lines in one assistant answer
MaxTitleLines == 2

\* titles an earlier answer may name
WrittenTitles ==
  { <<"I","n","c","e","p","t","i","o","n">>, <<"T","h","e"," ","M","a","t","r","i","x">>, <<"M","*","A","*","S","*","H">>, <<"U","p">>, <<"H","e","r">>, <<" ","H","E","A","T"," ">> }

\* a title in the two spellings of the answer format
PlainLine(x) == <<"*","*","T","i","t","l","e","*","*",":"," ">> \o x
BoldLine(x)  == <<"*","*","T","i","t","l","e","*","*",":"," ","*","*">> \o x \o <<"*","*">>
TitleLines == {PlainLine(x) : x \in WrittenTitles} \cup {BoldLine(x) : x \in WrittenTitles}

\* answers of up to n title lines
RECURSIVE TitleAnswers(_)
TitleAnswers(n) ==
  IF n = 0 THEN {}
  ELSE TitleLines \cup {a \o <<"\n">> \o l : a \in TitleAnswers(n - 1), l \in TitleLines}

\* histories of one turn, one of two turns and one with a short numbered title
ExclusionHistories ==
  { << <<<<"q">>, a>> >> : a \in TitleAnswers(MaxTitleLines) }
    \cup { << <<<<"q">>, PlainLine(<<"H","e","r">>)>>, <<<<"m","o","r","e">>, <<"1","."," ","*","*","H","e","a","t","*","*"," ","(","1","9","9","5",")">>>> >>,
            << <<<<"q">>, <<"1","."," ","*","*","U","p","*","*"," ","(","2","0","0","9",")","\n","2","."," ","H","e","r">>>> >> }

\* lines 253-289: excluded_titles is built from the answers of the history
ExtractTitlesStep ==
  /\ pc = "extract"
  /\ excluded_titles' = ExtractExcludedTitles(chat_history)
  /\ pc' = "extract_done"
  /\ UNCHANGED <<scopeVars, memoryVars, argVars, promptVars, parseVars, flagVars,
                 enhanced_query, searches, reranked, result, raised, handlerVars>>
(***************************************************************************)
(* get_langchain_recommendation (routers/langchain_recommendation.py)      *)
(***************************************************************************)
\* get_user_profile and the name of get_user_by_id (routers/auth.py)
get_user_profile(db, user_id) ==
  IF user_id \in DOMAIN db THEN db[user_id].profile ELSE NoProfile

get_user_name(db, user_id) ==
  IF user_id \in DOMAIN db THEN db[user_id].name ELSE NoneStr

\* the HTTPException raised for a query that is out of scope
OutOfScope(q) ==
  [status_code |-> 400,
   detail |-> [error |-> "out_of_scope",
               message |-> [vietnamese |-> "Xin loi, toi chi co the ho tro ve phim anh va chuong trinh TV tren Netflix.",
                            english |-> "Sorry, I can only help with movies and TV shows on Netflix."],
               query |-> q,
               suggestion |-> "Please ask about movies, TV shows, or entertainment content."]]

NoAnswer == [error |-> "ValueError", message |-> "No answer was generated"]

\* the except clause of the handler: HTTPException(500) that quotes e
ServerError(e) ==
  [status |-> 500,
   detail |-> [message |-> "Failed to generate recommendation: ", cause |-> e]]

\* Source(**s) after the year was made a str
Source(s) ==
  [title |-> s.title, description |-> s.description, genre |-> s.genre,
   year |-> IntToStr(s.year), type |-> s.type, rating |-> s.rating]

\* the answers of chat_with_functions: a function result or a plain reply
FunctionAnswers == { <<"*","*","T","i","t","l","e","*","*",":"," ","*","*","S","a","w","*","*">>, <<>> }

FunctionError == <<"I"," ","a","p","o","l","o","g","i","z","e",","," ","b","u","t"," ","I"," ","e","n","c","o","u","n","t","e","r","e","d"," ","a","n"," ","e","r","r","o","r"," ","p","r","o","c","e","s","s","i","n","g"," ","y","o","u","r"," ","r","e","q","u","e","s","t",".">>

Request(q, history, session_id, user_id, use_functions, template, llm_parsing, rtype) ==
  [query |-> q, chat_history |-> history, session_id |-> session_id,
   user_id |-> user_id, use_functions |-> use_functions, use_template |-> template,
   use_llm_parsing |-> llm_parsing, response_type |-> rtype]

StoredTurn == <<<<"r","e","c","o","m","m","e","n","d"," ","m","o","v","i","e","s">>, <<"1","."," ","*","*","H","e","a","t","*","*","\n","*","*","T","i","t","l","e","*","*",":"," ","*","*","I","n","c","e","p","t","i","o","n","*","*","\n">>>>
SentTurn   == <<<<"h","i">>, <<"*","*","T","i","t","l","e","*","*",":"," ","s","a","w","\n","*","*","T","i","t","l","e","*","*",":"," ","T","h","e"," ","M","a","t","r","i","x">>>>

Requests ==
  { Request(<<"t","h","e"," ","w","e","a","t","h","e","r"," ","t","o","d","a","y">>, <<>>, "", "", FALSE, TRUE, TRUE, NoType),
    Request(<<"s","t","o","c","k"," ","p","r","i","c","e"," ","n","e","w","s">>, <<SentTurn>>, "s1", "user-789012", TRUE, TRUE, TRUE,
            MOVIE_RECOMMENDATION),
    Request(<<"r","e","c","o","m","m","e","n","d"," ","m","o","v","i","e","s">>, <<>>, "s1", "user-789012", FALSE, TRUE, TRUE, NoType),
    Request(<<"r","e","c","o","m","m","e","n","d"," ","m","o","v","i","e","s">>, <<>>, "s1", "", FALSE, TRUE, TRUE, DETAILED_INFO),
    Request(<<"m","o","r","e"," ","h","o","r","r","o","r"," ","m","o","v","i","e","s">>, <<SentTurn>>, "s1", "user-789012", FALSE, TRUE,
            FALSE, NoType),
    Request(<<"D","a","r","k">>, <<>>, "", "nobody", FALSE, FALSE, TRUE, TRENDING),
    Request(<<"r","e","c","o","m","m","e","n","d"," ","m","o","v","i","e","s">>, <<>>, "s1", "", TRUE, TRUE, TRUE, NoType),
    Request(<<"r","e","c","o","m","m","e","n","d"," ","m","o","v","i","e","s">>, <<SentTurn>>, "", "", TRUE, TRUE, TRUE, NoType),
    Request(<<"m","o","r","e"," ","h","o","r","r","o","r"," ","m","o","v","i","e","s">>, <<SentTurn>>, "s2", "user-789012", TRUE, TRUE, TRUE,
            NoType) }

\* states of the session store and of the user table when a request arrives
Stores ==
  { <<>>, "s1" :> <<StoredTurn>>, "s1" :> [i \in 1..DefaultMaxHistory |-> StoredTurn] }

Databases ==
  { "user-789012" :> [name |-> <<"T","e","s","t"," ","U","s","e","r">>, profile |-> TestUser],
    "user-789012" :> [name |-> <<"T","e","s","t"," ","U","s","e","r">>, profile |-> BlankDislike] }

\* a variant that loads the profile and the history before the scope check
ReceiveRequestLoadsFirst ==
  /\ pc = "h_request"
  /\ related' = is_movie_related(request.query)
  /\ LET profile == IF request.user_id # ""
                    THEN get_user_profile(mock_database, request.user_id)
                    ELSE NoProfile
         stored == IF request.session_id # ""
                   THEN get_history(conversations, request.session_id)
                   ELSE <<>>
     IN  /\ user_profile' = profile
         /\ user_name' = IF ProfileTruthy(profile)
                         THEN get_user_name(mock_database, request.user_id)
                         ELSE NoneStr
         /\ chat_history' = stored \o request.chat_history
         /\ history_aliased' = /\ request.session_id \in DOMAIN conversations
                               /\ request.chat_history = <<>>
  /\ IF ~related'
     THEN /\ response' = ServerError(OutOfScope(request.query))
          /\ pc' = "h_done"
          /\ UNCHANGED <<query, flagVars>>
     ELSE /\ query' = request.query
          /\ use_template' = request.use_template
          /\ use_llm_parsing' = request.use_llm_parsing
          /\ pc' = IF request.use_functions THEN "cf_call" ELSE "gr_normalize"
          /\ UNCHANGED response
  /\ UNCHANGED <<memoryVars, promptVars, parseVars, pipeVars, request, mock_database>>

\* the scope check, the profile and the history of the request
ReceiveRequest ==
  /\ pc = "h_request"
  /\ related' = is_movie_related(request.query)
  /\ IF ~related'
     THEN /\ response' = ServerError(OutOfScope(request.query))
          /\ pc' = "h_done"
          /\ UNCHANGED <<argVars, flagVars, history_aliased>>
     ELSE LET profile == IF request.user_id # ""
                         THEN get_user_profile(mock_database, request.user_id)
                         ELSE NoProfile
              stored == IF request.session_id # ""
                        THEN get_history(conversations, request.session_id)
                        ELSE <<>>
          IN  /\ query' = request.query
              /\ user_profile' = profile
              /\ user_name' = IF ProfileTruthy(profile)
                              THEN get_user_name(mock_database, request.user_id)
                              ELSE NoneStr
              /\ chat_history' = stored \o request.chat_history
              /\ history_aliased' = /\ request.session_id \in DOMAIN conversations
                                    /\ request.chat_history = <<>>
              /\ use_template' = request.use_template
              /\ use_llm_parsing' = request.use_llm_parsing
              /\ pc' = IF request.use_functions THEN "cf_call" ELSE "gr_normalize"
              /\ UNCHANGED response
  /\ UNCHANGED <<memoryVars, promptVars, parseVars, pipeVars, request, mock_database>>

\* chat_with_functions: the turn is appended to the list it was given
ChatWithFunctions ==
  /\ pc = "cf_call"
  /\ \E a \in FunctionAnswers \cup {FunctionError} :
       LET turn == <<query, a>>
       IN  /\ chat_history' = Append(chat_history, turn)
           /\ conversations' =
                IF history_aliased
                THEN [conversations EXCEPT ![request.session_id] = Append(@, turn)]
                ELSE conversations
           /\ result' = [answer |-> a, sources |-> <<>>,
                         chat_history |-> Append(chat_history, turn),
                         response_type |-> "function_call"]
           /\ raised' = IF a = FunctionError THEN "chat_with_functions" ELSE raised
  /\ pc' = "cf_done"
  /\ UNCHANGED <<scopeVars, max_history, writers, added, query, user_profile, user_name,
                 promptVars, parseVars, flagVars, enhanced_query, excluded_titles,
                 searches, reranked, handlerVars>>

\* a variant that saves the turn whether or not a session id was sent
CompleteRequestAlwaysSaves ==
  /\ pc \in {"gr_done", "cf_done"}
  /\ conversations' = add_message(conversations, max_history, request.session_id,
                                  request.query, result.answer)
  /\ added' = IF request.session_id \in DOMAIN added
              THEN [added EXCEPT ![request.session_id] =
                      Append(@, <<request.query, result.answer>>)]
              ELSE added
  /\ response' =
       IF ~Truthy(result.answer) THEN ServerError(NoAnswer)
       ELSE [status |-> 200,
             body |-> [answer |-> result.answer,
                       audio_url |-> NoneStr,
                       sources |-> [i \in 1..Len(result.sources) |-> Source(result.sources[i])],
                       chat_history |-> result.chat_history,
                       function_called |-> IF pc = "cf_done" THEN "function_call_detected"
                                           ELSE "None",
                       response_type |-> result.response_type,
                       user_profile |-> IF ProfileTruthy(user_profile) THEN user_profile
                                        ELSE NoProfile,
                       user_name |-> user_name]]
  /\ pc' = "h_done"
  /\ UNCHANGED <<scopeVars, max_history, writers, argVars, promptVars, parseVars, flagVars,
                 pipeVars, request, mock_database, history_aliased>>

\* the turn is saved, the answer is checked and the response is built
CompleteRequest ==
  /\ pc \in {"gr_done", "cf_done"}
  /\ IF request.session_id # ""
     THEN /\ conversations' = add_message(conversations, max_history, request.session_id,
                                          request.query, result.answer)
          /\ added' = [added EXCEPT ![request.session_id] =
                         Append(@, <<request.query, result.answer>>)]
     ELSE UNCHANGED <<conversations, added>>
  /\ response' =
       IF ~Truthy(result.answer) THEN ServerError(NoAnswer)
       ELSE [status |-> 200,
             body |-> [answer |-> result.answer,
                       audio_url |-> NoneStr,
                       sources |-> [i \in 1..Len(result.sources) |-> Source(result.sources[i])],
                       chat_history |-> result.chat_history,
                       function_called |-> IF pc = "cf_done" THEN "function_call_detected"
                                           ELSE "None",
                       response_type |-> result.response_type,
                       user_profile |-> IF ProfileTruthy(user_profile) THEN user_profile
                                        ELSE NoProfile,
                       user_name |-> user_name]]
  /\ pc' = "h_done"
  /\ UNCHANGED <<scopeVars, max_history, writers, argVars, promptVars, parseVars, flagVars,
                 pipeVars, request, mock_database, history_aliased>>

NoRequest == [none |-> TRUE]
NoResponse == [status |-> 0]

HandlerIdle ==
  /\ request = NoRequest
  /\ mock_database = <<>>
  /\ history_aliased = FALSE
  /\ response = NoResponse

(***************************************************************************)
(* Properties                                                              *)
(***************************************************************************)
\* C1: after k add_message calls on a session with no clear_session in
\* between, get_history returns the last min(k, max_history) turns, oldest
\* first.
C1_LastTurnsKept ==
  \A s \in SessionIds :
    LET k == Len(added[s])
        m == IF k < max_history THEN k ELSE max_history
    IN  get_history(conversations, s) = SubSeq(added[s], k - m + 1, k)

\* cap 10 and 12 adds on one session: turns 3..12 are left
C1_Witness ==
  \E s \in SessionIds :
    /\ max_history = 10
    /\ Len(added[s]) = 12
    /\ get_history(conversations, s) = SubSeq(added[s], 3, 12)

HasDomainKeyword(q)   == ContainsAny(movie_keywords, Lower(q))
HasOffTopicKeyword(q) == ContainsAny(non_movie_keywords, Lower(q))

\* C9: a query whose lower-cased text contains a domain keyword is in scope,
\* whatever off-topic keywords it also contains.
C9_DomainKeywordWins ==
  (pc = "scope_done" /\ HasDomainKeyword(query)) => related

\* a query with both a domain and an off-topic keyword has been classified
C9_Witness ==
  /\ pc = "scope_done"
  /\ HasDomainKeyword(query)
  /\ HasOffTopicKeyword(query)
  /\ related

\* C10: a query of at most 5 whitespace-delimited tokens that contains no
\* off-topic keyword is in scope, the empty and the blank query included.
C10_ShortQueryAllowed ==
  (pc = "scope_done" /\ SplitCount(query) <= 5 /\ ~HasOffTopicKeyword(query))
    => related

\* a 5-token query that is in scope by the short-query default alone
C10_Witness ==
  /\ pc = "scope_done"
  /\ SplitCount(query) = 5
  /\ ~HasDomainKeyword(query)
  /\ ~MatchesAny(movie_inquiry_patterns, Lower(query))
  /\ ~MatchesAny(movie_context_patterns, Lower(query))
  /\ related

\* the blank query (0 tokens) is classified in scope
C10_BlankReached ==
  ~(pc = "scope_done" /\ Len(query) > 0 /\ SplitCount(query) = 0 /\ related)

\* the type the prompt was built for, and its count instruction
SelectedType == prompt_data.user.response_type
Critical     == prompt_data.user.critical

\* <N> movies/films/shows, the pattern as the claim words it
claim_number_pattern == Cat(<<WB, Grp(Rep(Cls(Digits), 1, TRUE)), Rep(Cls(Whitespace), 0, TRUE), Alt(<<Cat(<<Lit(<<"m","o","v","i","e">>), Opt(Lit(<<"s">>), TRUE)>>), Cat(<<Lit(<<"f","i","l","m">>), Opt(Lit(<<"s">>), TRUE)>>), Cat(<<Lit(<<"s","h","o","w">>), Opt(Lit(<<"s">>), TRUE)>>)>>), WB>>)

\* C8 as stated: for every query and every selected response type the
\* user prompt mandates exactly N recommendations when a number N is parsed
\* by the '<N> movies/films/shows' pattern, and exactly 5 otherwise.
C8_CountInstructionForEveryType ==
  pc = "prompt_done" =>
    /\ Len(Critical) = 1
    /\ Critical[1].n = IF ReFound(claim_number_pattern, Lower(query))
                       THEN ToInt(ReGroup1(claim_number_pattern, Lower(query)))
                       ELSE 5

\* C8 amended: when the selected response type is movie_recommendation or
\* tv_show_recommendation the user prompt mandates exactly N recommendations
\* if a number N is parsed from the lower-cased query by the
\* '<N> movies/films/shows/recommendations' pattern and exactly 5 if none
\* is; for every other response type it holds no count instruction.
C8_CountInstructionForRecommendations ==
  pc = "prompt_done" =>
    IF SelectedType \in {MOVIE_RECOMMENDATION, TV_SHOW_RECOMMENDATION}
    THEN /\ Len(Critical) = 1
         /\ Critical[1].n = IF ReFound(number_pattern, Lower(query))
                            THEN ToInt(ReGroup1(number_pattern, Lower(query)))
                            ELSE 5
    ELSE Critical = <<>>

\* "recommend 3 movies" with a movie candidate: exactly 3 is mandated
C8_Witness ==
  /\ pc = "prompt_done"
  /\ query = <<"r","e","c","o","m","m","e","n","d"," ","3"," ","m","o","v","i","e","s">>
  /\ SelectedType = MOVIE_RECOMMENDATION
  /\ Len(Critical) = 1
  /\ Critical[1].n = 3


\* the value returned by the last parse_query_with_llm call
ParseResult == <<base_query_for_search, filters>>

\* the fallback pair: the query unchanged and the regex parser's filters
RegexFallback == <<query, parse_query_regex(query)>>

\* the reply carries no usable filters object: the JSON is not an object,
\* has no filters key, or its filters value is not an object
LacksUsableFilters(reply) ==
  \/ ~reply.object
  \/ "filters" \notin DOMAIN reply.obj
  \/ reply.obj.filters[1] # "dict"

\* the reply carries a filters value that is not an object
HasUnusableFilters(reply) ==
  \/ ~reply.object
  \/ ("filters" \in DOMAIN reply.obj /\ reply.obj.filters[1] # "dict")

\* C7 as stated: if the remote normalizer call raises, its output is not
\* valid JSON, or the JSON lacks a usable filters object, then
\* parse_query_with_llm returns (query unchanged, parse_query_regex(query)).
C7_FallbackOnAnyFailure ==
  pc = "parse_done" =>
    ((\/ llm_reply.kind = "raise"
      \/ llm_reply.kind = "none"
      \/ ~JsonLoads(llm_reply)
      \/ LacksUsableFilters(llm_reply))
     => ParseResult = RegexFallback)

\* C7 amended: if the remote normalizer call raises, its output is not valid
\* JSON, or the JSON carries a filters value that is not an object, then
\* parse_query_with_llm returns (query unchanged, parse_query_regex(query));
\* if the JSON is an object without a filters key (and with no unusable
\* matched_fields) there is no fallback: it returns the object's
\* optimized_summary, or the query when that is absent too, with no filters.
C7_FallbackOnRaisedFailure ==
  pc = "parse_done" =>
    /\ (\/ llm_reply.kind = "raise"
        \/ llm_reply.kind = "none"
        \/ ~JsonLoads(llm_reply)
        \/ HasUnusableFilters(llm_reply))
       => ParseResult = RegexFallback
    /\ (/\ llm_reply.kind = "text" /\ JsonLoads(llm_reply) /\ llm_reply.object
        /\ "filters" \notin DOMAIN llm_reply.obj
        /\ ("matched_fields" \in DOMAIN llm_reply.obj
              => llm_reply.obj.matched_fields = "list"))
       => /\ filters = <<>>
          /\ base_query_for_search =
               IF "optimized_summary" \in DOMAIN llm_reply.obj
               THEN llm_reply.obj.optimized_summary ELSE query

\* the call raised for a query in which the regex parser finds all four
\* filters, and the fallback pair came back
C7_Witness ==
  /\ pc = "parse_done"
  /\ llm_reply.kind = "raise"
  /\ DOMAIN parse_query_regex(query) = {"country", "type", "year", "genre"}
  /\ ParseResult = RegexFallback

\* the request was answered and its query is out of scope
RejectedRequest == pc = "h_done" /\ ~is_movie_related(request.query)

\* C2: for every query for which is_movie_related returns false the handler
\* of POST /api/v2/recommendation answers with HTTP 400, error
\* "out_of_scope" and the bilingual guidance message, not with a 5xx error.
C2_OutOfScopeIsBusinessError ==
  RejectedRequest =>
    /\ response.status = 400
    /\ response.detail = OutOfScope(request.query).detail

\* what the handler answers to such a query: HTTP 500 whose detail quotes
\* the HTTPException(400) that the except clause caught
C2_OutOfScopeAnswered500 ==
  RejectedRequest => response = ServerError(OutOfScope(request.query))

\* the external calls of get_recommendation whose exception reaches its
\* except clause
ExternalFailures == {"embed_query", "search", "llm"}

\* str.startswith
StartsWith(s, p) == Len(s) >= Len(p) /\ SubSeq(s, 1, Len(p)) = p

\* a well-formed response with an apology, no sources and the type "error"
IsErrorResponse(r) ==
  /\ DOMAIN r = {"answer", "sources", "chat_history", "response_type"}
  /\ StartsWith(r.answer, <<"I"," ","a","p","o","l","o","g","i","z","e">>)
  /\ r.sources = <<>>
  /\ r.response_type = "error"

\* the normalizer call of this run raised
NormalizerRaised == use_llm_parsing /\ llm_reply.kind = "raise"

\* C3 as stated: if the normalizer, the embedding call, a vector search or
\* the chat completion raised inside get_recommendation, the value returned
\* is the error response (apology, no sources, response_type "error").
C3_ErrorResponseOnAnyRaise ==
  (pc = "gr_done" /\ (NormalizerRaised \/ raised \in ExternalFailures))
    => IsErrorResponse(result)

\* C3 amended: if the embedding call, a vector search or the chat completion
\* raises inside get_recommendation, get_recommendation returns the error
\* response (apology, no sources, response_type "error"); if the normalizer
\* call raises, parse_query_with_llm recovers with the regex fallback and
\* get_recommendation goes on with the enriched query and the regex filters.
C3_ErrorResponseOnPipelineRaise ==
  /\ (pc = "gr_done" /\ raised \in ExternalFailures) => IsErrorResponse(result)
  /\ (pc = "gr_retrieve" /\ NormalizerRaised)
       => /\ base_query_for_search = enhanced_query
          /\ filters = parse_query_regex(enhanced_query)
          /\ raised = "none"
  /\ (pc = "gr_done" /\ NormalizerRaised /\ raised = "none" /\ result.sources # <<>>)
       => ~IsErrorResponse(result)

\* a vector search raised after a successful one and the error response
\* came back
C3_Witness ==
  /\ pc = "gr_done"
  /\ raised = "search"
  /\ Len(searches) = 2
  /\ searches[1].ok /\ ~searches[2].ok
  /\ IsErrorResponse(result)

\* the rerank step of this run has produced `reranked`
RerankDone ==
  /\ pc \in {"gr_supplement", "gr_broaden", "gr_generate", "gr_done"}
  /\ searches # <<>>
  /\ searches[1].ok
  /\ raised # "rerank"

\* the profile holds a non-empty list of disliked genres
HasDislikedGenres(p) == ProfileTruthy(p) /\ TruthyList(GetList(p, "disliked_genres"))

\* the genre field of c contains g, case-insensitively
GenreContains(c, g) == IsSubstr(Lower(g), Lower(OrEmpty(c.genre)))

\* C4 as stated: for a profile with a non-empty disliked_genres list the
\* output of the rerank step holds no candidate whose genre field contains
\* (case-insensitive substring) any entry of the list.
C4_NoDislikedGenreOfAnyEntry ==
  (RerankDone /\ HasDislikedGenres(user_profile)) =>
    LET disliked == GetList(user_profile, "disliked_genres")
    IN  \A i \in 1..Len(reranked) : \A j \in 1..Len(disliked) :
          ~GenreContains(reranked[i], disliked[j])

\* C4 amended: for a profile with a non-empty disliked_genres list the
\* output of the rerank step holds no candidate whose genre field contains
\* (case-insensitive substring) any non-empty entry of the list; such
\* candidates are removed, and every other candidate of the primary list is
\* kept. Empty entries are ignored.
C4_NoDislikedGenreOfNonEmptyEntry ==
  (RerankDone /\ HasDislikedGenres(user_profile)) =>
    LET disliked == Clean(GetList(user_profile, "disliked_genres"))
        primary == PrimaryContext(searches[1].results, excluded_titles)
        Disliked(c) == \E j \in 1..Len(disliked) : GenreContains(c, disliked[j])
    IN  /\ \A i \in 1..Len(reranked) : ~Disliked(reranked[i])
        /\ \A i \in 1..Len(primary) :
             Disliked(primary[i]) \/ \E k \in 1..Len(reranked) : reranked[k] = primary[i]

\* the primary search returned "HORROR, Thriller" for a profile that
\* dislikes "horror", and the rerank step kept other candidates
C4_Witness ==
  /\ RerankDone
  /\ HasDislikedGenres(user_profile)
  /\ \E i \in 1..Len(searches[1].results) :
       /\ HasPayload(searches[1].results[i])
       /\ searches[1].results[i].genre = <<"H","O","R","R","O","R",","," ","T","h","r","i","l","l","e","r">>
  /\ GetList(user_profile, "disliked_genres")[1] = <<"h","o","r","r","o","r">>
  /\ Len(reranked) > 0
  /\ Len(reranked) < Len(searches[1].results)

\* C5: no candidate in the list handed to the generator, whether it came
\* from the primary retrieval or from a backfill retrieval, has a
\* lower-cased title that is in the exclusion set extracted from the history;
\* the list is checked against the history when it is handed over, and
\* against the excluded_titles of the run once the generator has been called.
C5_NoExcludedTitleGenerated ==
  /\ pc = "gr_generate" =>
        LET excluded == ExtractExcludedTitles(chat_history)
        IN  \A i \in 1..Len(context) : Lower(context[i].title) \notin excluded
  /\ (pc = "gr_done" /\ raised \in {"none", "llm"}) =>
        /\ \A i \in 1..Len(context) : Lower(context[i].title) \notin excluded_titles
        /\ raised = "none" => result.sources = context

\* the result has an excluded title, spelled in another case
OffersExcluded(call) ==
  \E i \in 1..Len(call.results) :
    /\ HasPayload(call.results[i])
    /\ Lower(TitleOf(call.results[i])) \in excluded_titles
    /\ TitleOf(call.results[i]) \notin excluded_titles

\* the primary search and a backfill search both offered an excluded title
\* and the generator was handed the candidates that were left
C5_Witness ==
  /\ pc = "gr_done"
  /\ raised = "none"
  /\ Len(searches) >= 2
  /\ OffersExcluded(searches[1])
  /\ OffersExcluded(searches[Len(searches)])
  /\ Len(context) > 0
  /\ result.sources = context

\* the request named a response type and was answered by get_recommendation
\* with an answer generated from candidates by a template
ForcedRequest ==
  /\ pc = "h_done"
  /\ response.status = 200
  /\ ~request.use_functions
  /\ request.use_template
  /\ request.response_type # NoType
  /\ response.body.sources # <<>>

\* C6: when the caller supplies a response_type in the request,
\* detect_response_type is bypassed: the supplied type determines the
\* template used and the response_type reported.
C6_SuppliedTypeForced ==
  ForcedRequest =>
    /\ response.body.response_type = request.response_type
    /\ response_type = request.response_type

\* what the handler reports for such a request: the type chosen by
\* detect_response_type, for which the prompt was built as well
C6_SuppliedTypeIgnored ==
  ForcedRequest =>
    /\ response.body.response_type = detect_response_type(request.query, context)
    /\ response_type = detect_response_type(request.query, context)

\* the call came with no profile: None or the empty dict
WithoutProfile == user_profile \in {NoProfile, EmptyProfile}

\* C11: with no user profile (None, and likewise the empty dict) the
\* enrichment leaves the query unmodified for every query, vague or not: the
\* text handed to the normalizer, and the text embedded when the normalizer
\* is not used or falls back, equals the original query.
C11_NoProfileNoEnrichment ==
  (pc # "gr_normalize" /\ WithoutProfile) =>
    /\ enhanced_query = query
    /\ ~use_llm_parsing => base_query_for_search = query
    /\ (use_llm_parsing /\ llm_reply.kind = "raise") => base_query_for_search = query

\* a vague query was enriched without a profile and came out unmodified
C11_Witness ==
  /\ pc = "gr_retrieve"
  /\ user_profile = EmptyProfile
  /\ is_vague_query(query)
  /\ enhanced_query = query
  /\ EnhanceQuery(query, TestUser) # query

\* the rerank step has just produced `reranked`
JustReranked == RerankDone /\ Len(searches) = 1 /\ pc # "gr_done"

\* the sort key of a candidate under the profile p
MatchKey(c, p) ==
  comprehensive_match_score(c, LowerAll(Clean(GetList(p, "favorite_genres"))),
                            LowerAll(Clean(GetList(p, "favorite_actors"))),
                            Lower(OrEmpty(GetStr(p, "language_preference"))))

\* the candidates of the primary search that the dislike filter lets through
Survivors ==
  LET disliked == Clean(GetList(user_profile, "disliked_genres"))
  IN  SelectSeq(PrimaryContext(searches[1].results, excluded_titles),
                LAMBDA c : ~\E j \in 1..Len(disliked) : GenreContains(c, disliked[j]))

\* C12: with a profile present the rerank step outputs the surviving
\* candidates in descending lexicographic order of the key (hasGenreMatch,
\* genreMatchCount, hasActorMatch, actorMatchCount, countryMatch, score),
\* candidates with identical keys keeping their retrieval order.
C12_RerankSortedStable ==
  (JustReranked /\ ProfileTruthy(user_profile)) =>
    LET survivors == Survivors
        Pos(c) == CHOOSE k \in 1..Len(survivors) :
                    /\ survivors[k] = c
                    /\ \A m \in 1..(k - 1) : survivors[m] # c
        Times(s, c) == Cardinality({k \in 1..Len(s) : s[k] = c})
    IN  /\ Len(reranked) = Len(survivors)
        /\ \A c \in Range(survivors) : Times(reranked, c) = Times(survivors, c)
        /\ \A i, j \in 1..Len(reranked) :
             i < j =>
               LET ki == MatchKey(reranked[i], user_profile)
                   kj == MatchKey(reranked[j], user_profile)
               IN  /\ ~TupleLess(ki, kj)
                   /\ ki = kj => Pos(reranked[i]) <= Pos(reranked[j])

\* a candidate of a favourite genre precedes candidates of a higher score
\* that match none, and two candidates of identical keys keep their
\* retrieval order
C12_Witness ==
  /\ JustReranked
  /\ user_profile = TestUser
  /\ Len(reranked) = 3
  /\ reranked[1].title = Clip.title /\ reranked[1].score < reranked[2].score
  /\ reranked[2].title = Heat.title
  /\ reranked[3].title = Insomnia.title
  /\ MatchKey(reranked[2], user_profile) = MatchKey(reranked[3], user_profile)
  /\ MatchKey(reranked[1], user_profile)[1] = 1
  /\ MatchKey(reranked[2], user_profile)[1] = 0

\* the lines of the answers of the history
HistoryLines ==
  UNION {Range(SplitOn(chat_history[i][2], "\n")) : i \in 1..Len(chat_history)}

\* the title x, longer than 2 characters, is written in the history as
\* '**Title**: x' or as '**Title**: **x**'
Written(x) ==
  /\ Len(Strip(x)) > 2
  /\ (PlainLine(x) \in HistoryLines \/ BoldLine(x) \in HistoryLines)

\* the history of the example
ExampleHistory ==
  << <<<<"q">>, PlainLine(<<"I","n","c","e","p","t","i","o","n">>) \o <<"\n">> \o BoldLine(<<"T","h","e"," ","M","a","t","r","i","x">>)>> >>

\* C13 as stated: every title X longer than 2 characters that a prior answer
\* writes as '**Title**: X' or '**Title**: **X**' is in the extracted set in
\* lower-cased, trimmed form; for the example history the set is exactly
\* {inception, the matrix}.
C13_EveryWrittenTitleExtracted ==
  pc = "extract_done" =>
    /\ \A x \in WrittenTitles : Written(x) => Lower(Strip(x)) \in excluded_titles
    /\ chat_history = ExampleHistory
         => excluded_titles = {<<"i","n","c","e","p","t","i","o","n">>, <<"t","h","e"," ","m","a","t","r","i","x">>}

\* C13 amended: every title X longer than 2 characters and without an
\* asterisk that a prior answer writes on a line as '**Title**: X' or
\* '**Title**: **X**' is in the extracted set in lower-cased, trimmed form;
\* for the example history the set is exactly {inception, the matrix}.
C13_WrittenTitleWithoutStarExtracted ==
  pc = "extract_done" =>
    /\ \A x \in WrittenTitles :
         (Written(x) /\ "*" \notin Range(x)) => Lower(Strip(x)) \in excluded_titles
    /\ chat_history = ExampleHistory
         => excluded_titles = {<<"i","n","c","e","p","t","i","o","n">>, <<"t","h","e"," ","m","a","t","r","i","x">>}

\* the titles of the example history were extracted
C13_Witness ==
  /\ pc = "extract_done"
  /\ chat_history = ExampleHistory
  /\ Written(<<"I","n","c","e","p","t","i","o","n">>) /\ Written(<<"T","h","e"," ","M","a","t","r","i","x">>)
  /\ excluded_titles = {<<"i","n","c","e","p","t","i","o","n">>, <<"t","h","e"," ","m","a","t","r","i","x">>}

\* C14: sessions are isolated: a step that adds to or clears session s
\* leaves the history of every other session unchanged; after clear_session
\* the history of s is empty; clear_session on an id that is not stored
\* changes nothing.
C14_SessionsIsolated ==
  /\ [][\A s \in SessionIds :
          /\ added'[s] # added[s] =>
                \A t \in SessionIds \ {s} :
                  get_history(conversations', t) = get_history(conversations, t)
          /\ (added[s] # <<>> /\ added'[s] = <<>>) =>
                get_history(conversations', s) = <<>>]_vars
  /\ [](\A s \in SessionIds :
          s \notin DOMAIN conversations => clear_session(conversations, s) = conversations)

\* two sessions hold different histories
C14_Witness ==
  /\ pc = "memory"
  /\ get_history(conversations, "s1") = << <<"q1", "a1">> >>
  /\ get_history(conversations, "s2") = << <<"q2", "a2">>, <<"q1", "a1">> >>

\* C15: a request sent without a session_id is stateless: whatever its
\* other flags, no step of it changes the session store.
C15_NoSessionIdStateless ==
  [][request.session_id = "" => conversations' = conversations]_vars

\* a request without session_id, with use_functions and a chat_history, was
\* answered while a session was stored
C15_Witness ==
  /\ pc = "h_done"
  /\ request.session_id = ""
  /\ request.use_functions
  /\ request.chat_history # <<>>
  /\ response.status = 200
  /\ conversations = "s1" :> <<StoredTurn>>

\* C16: the store has no lock.  When the statements of two add_message calls
\* on one session interleave, a state is reachable after both complete in
\* which the turn appended by one of them is missing from the stored history
\* (C16_Witness); calls that do not overlap never lose a turn, and the stored
\* history never holds a turn that was not appended.
C16_LostUpdateOnlyWhenInterleaved ==
  pc = "race" =>
    /\ Range(get_history(conversations, SharedSession)) \subseteq Range(added[SharedSession])
    /\ (BothDone /\ \A r \in Writers : ~writers[r].overlapped) =>
         get_history(conversations, SharedSession) = LastN(added[SharedSession], max_history)

\* both calls found the session missing; the second list creation discarded
\* the turn the first call had appended
C16_Witness ==
  /\ pc = "race" /\ BothDone
  /\ max_history = DefaultMaxHistory
  /\ added[SharedSession] = <<TurnOf("r1"), TurnOf("r2")>>
  /\ get_history(conversations, SharedSession) = <<TurnOf("r2")>>

\* C17: while a request for a session id is served, the stored history of the
\* session is changed only by the handler's add_message call made after the
\* answer has been generated; get_recommendation and chat_with_functions
\* leave the stored history unchanged.
C17_StoreChangedOnlyByAddMessage ==
  [][conversations' # conversations => pc \in {"gr_done", "cf_done"}]_vars

\* what the steps do to the store: get_recommendation leaves it unchanged;
\* chat_with_functions appends its turn to the list it was given, which is
\* the stored list when the session exists and the request sent no history
C17_FunctionCallAppendsToStore ==
  [][/\ pc \in {"gr_normalize", "gr_retrieve", "gr_supplement", "gr_broaden", "gr_generate"}
       => conversations' = conversations
     /\ pc = "cf_call" =>
          conversations' =
            IF history_aliased
            THEN [conversations EXCEPT ![request.session_id] =
                    Append(@, <<request.query, result'.answer>>)]
            ELSE conversations]_vars

\* get_recommendation returned with no candidate left and no exception caught
NoCandidateLeft == pc = "gr_done" /\ raised = "none" /\ context = <<>>

\* C18 as stated: when no candidate remains after the primary retrieval and
\* all backfill retrievals, the response of get_recommendation is not a
\* response of type "error" as produced when an external call fails.
C18_NoResultsIsNotError ==
  NoCandidateLeft => result.response_type # ErrorResult.response_type

\* C18: when no candidate remains after the primary retrieval and all
\* backfill retrievals, get_recommendation returns a response of type
\* "error" with no sources, as it does when an external call fails; the two
\* responses differ in the apology text and in the history, which is the
\* caller's here and empty after a failure.
C18_NoResultsIsErrorTyped ==
  /\ NoCandidateLeft =>
       /\ result = NoResultsResult(chat_history)
       /\ result.response_type = "error"
       /\ result.response_type = ErrorResult.response_type
       /\ result.sources = ErrorResult.sources
       /\ result.answer # ErrorResult.answer
  /\ (pc = "gr_done" /\ raised \in ExternalFailures) => result = ErrorResult

\* the primary, the supplementary and the broader search all came back with
\* nothing usable
C18_Witness ==
  /\ NoCandidateLeft
  /\ Len(searches) = 3
  /\ \A i \in 1..3 : searches[i].ok
  /\ chat_history # <<>>
  /\ result.chat_history = chat_history

\* C19: every backfill retrieval happens before the rerank step, so that the
\* dislike filter is applied to the complete candidate list: no search is
\* made once the rerank step has run, and the list handed to the template
\* selection holds no candidate of a disliked genre.
C19_BackfillBeforeRerank ==
  /\ [][(RerankDone /\ ProfileTruthy(user_profile)) => searches' = searches]_vars
  /\ [](pc = "gr_generate" /\ HasDislikedGenres(user_profile) =>
          LET disliked == Clean(GetList(user_profile, "disliked_genres"))
          IN  \A i \in 1..Len(context) : \A j \in 1..Len(disliked) :
                ~GenreContains(context[i], disliked[j]))

\* the order of the code: the supplementary and the broader search are made
\* after the rerank step, and their candidates are appended behind the
\* reranked ones without the dislike filter or the ordering
C19_RerankBeforeBackfill ==
  /\ [][(searches' # searches /\ searches # <<>>) =>
          /\ RerankDone
          /\ pc \in {"gr_supplement", "gr_broaden"}
          /\ reranked' = reranked]_vars
  /\ [](pc = "gr_generate" =>
          /\ Len(context) >= Len(reranked)
          /\ SubSeq(context, 1, Len(reranked)) = reranked)

\* a candidate of a disliked genre, added by a backfill search, is in the
\* list handed to the template selection
C19_DislikedBackfilled ==
  /\ pc = "gr_generate" /\ user_profile = TestUser
  /\ Len(context) > Len(reranked)
  /\ \E i \in 1..Len(context) : GenreContains(context[i], <<"h","o","r","r","o","r">>)

\* the search made by the step
LastSearch == searches'[Len(searches')]

\* C20 as stated: the supplementary retrieval uses the diversity-biased text
\* (search text + " different variety diverse") with a limit of 20 to 30,
\* and the primary retrieval uses the un-biased search text with limit 10.
C20_SupplementaryIsDiverse ==
  [][/\ (pc = "gr_supplement" /\ searches' # searches) =>
          /\ LastSearch.query_vector =
               base_query_for_search \o <<" ","d","i","f","f","e","r","e","n","t"," ","v","a","r","i","e","t","y"," ","d","i","v","e","r","s","e">>
          /\ LastSearch.limit \in 20..30
     /\ (pc = "gr_retrieve" /\ searches' # searches) =>
          /\ LastSearch.query_vector = base_query_for_search
          /\ LastSearch.limit = 10]_vars

\* C20: the supplementary retrieval is issued only when fewer than 5
\* candidates remain after the exclusion filter and the rerank step, the
\* query asks for other/more/different results and a title was extracted
\* from the history; it uses the search text + " alternative options" with
\* limit 15.  The diversity-biased text and the widened limits belong to the
\* primary retrieval: biased text and limit 30 when the query asks for
\* others and a title was extracted, un-biased text and limit 20 when it asks
\* for others and no title was extracted, un-biased text and limit 10
\* otherwise.
C20_PrimaryIsDiverse ==
  [][/\ (pc = "gr_supplement" /\ searches' # searches) =>
          /\ Len(context) < 5
          /\ asking_for_others(query)
          /\ excluded_titles # {}
          /\ Len(searches) = 1
          /\ LastSearch.query_vector = base_query_for_search \o <<" ","a","l","t","e","r","n","a","t","i","v","e"," ","o","p","t","i","o","n","s">>
          /\ LastSearch.limit = 15
     /\ (pc = "gr_retrieve" /\ searches' # searches) =>
          /\ Len(searches') = 1
          /\ LastSearch.query_vector =
               IF asking_for_others(query) /\ excluded_titles' # {}
               THEN base_query_for_search \o <<" ","d","i","f","f","e","r","e","n","t"," ","v","a","r","i","e","t","y"," ","d","i","v","e","r","s","e">>
               ELSE base_query_for_search
          /\ LastSearch.limit =
               IF asking_for_others(query) /\ excluded_titles' # {} THEN 30
               ELSE IF asking_for_others(query) THEN 20 ELSE 10
     /\ (pc = "gr_retrieve" /\ pc' = "gr_supplement") =>
          /\ Len(context') < 5
          /\ asking_for_others(query)
          /\ excluded_titles' # {}
     /\ (pc = "gr_retrieve" /\ Len(context') < 5 /\ asking_for_others(query)
         /\ excluded_titles' # {} /\ pc' # "gr_done") => pc' = "gr_supplement"]_vars

\* a primary search with the biased text and limit 30 was followed by a
\* supplementary search with " alternative options" and limit 15
C20_Witness ==
  /\ pc \in {"gr_broaden", "gr_generate"}
  /\ Len(searches) = 2
  /\ searches[1].query_vector = base_query_for_search \o <<" ","d","i","f","f","e","r","e","n","t"," ","v","a","r","i","e","t","y"," ","d","i","v","e","r","s","e">>
  /\ searches[1].limit = 30
  /\ searches[2].query_vector = base_query_for_search \o <<" ","a","l","t","e","r","n","a","t","i","v","e"," ","o","p","t","i","o","n","s">>
  /\ searches[2].limit = 15
  /\ searches[2].ok

\* the step is a backfill search that came back with results
BackfillStep ==
  /\ pc \in {"gr_supplement", "gr_broaden"}
  /\ searches' # searches
  /\ LastSearch.ok

\* C21: each backfill retrieval is issued at most once per request, appends
\* only results whose lower-cased title is neither excluded nor already in
\* the candidate list, and stops as soon as the list holds 5 candidates: it
\* never grows the list beyond 5, it stops short of 5 only when no result is
\* left to append, and a list of 1 to 4 candidates goes on to the generation.
C21_BackfillMergeRule ==
  [][/\ BackfillStep =>
          /\ Len(context) < 5
          /\ Len(context') <= 5
          /\ Len(context') >= Len(context)
          /\ SubSeq(context', 1, Len(context)) = context
          /\ \A i \in (Len(context) + 1)..Len(context') :
               /\ Lower(context'[i].title) \notin excluded_titles
               /\ \A j \in 1..(i - 1) : Lower(context'[j].title) # Lower(context'[i].title)
               /\ \E k \in 1..Len(LastSearch.results) :
                    /\ HasPayload(LastSearch.results[k])
                    /\ context'[i] = ContextEntry(LastSearch.results[k])
          /\ Len(context') < 5 =>
               \A k \in 1..Len(LastSearch.results) :
                 LET r == LastSearch.results[k]
                 IN  (HasPayload(r) /\ Lower(TitleOf(r)) \notin excluded_titles) =>
                       \E i \in 1..Len(context') : Lower(context'[i].title) = Lower(TitleOf(r))
     /\ (pc = "gr_supplement" /\ searches' # searches) => Len(searches) = 1
     /\ (pc = "gr_broaden" /\ searches' # searches) =>
          /\ Len(searches) \in {1, 2}
          /\ pc' \in {"gr_generate", "gr_done"}
     /\ (pc = "gr_generate" /\ Len(context) >= 1 /\ raised' = "none") =>
          /\ result'.sources = context
          /\ result'.response_type # "error"]_vars

\* the broader search was the third search and left 1 to 4 candidates, which
\* were returned as the sources of a typed answer
C21_Witness ==
  /\ pc = "gr_done" /\ raised = "none"
  /\ Len(searches) = 3
  /\ Len(context) \in 1..4
  /\ Len(context) > Len(reranked)
  /\ result.sources = context
  /\ result.response_type # "error"

\* C22: the candidate list produced for a request never holds two candidates
\* with the same case-insensitive title, even when a single retrieval call
\* returns a title more than once.
C22_CandidatesUniqueByTitle ==
  RerankDone =>
    \A i, j \in 1..Len(context) :
      i < j => Lower(context[i].title) # Lower(context[j].title)

\* what the loops do: the primary loop keeps every result that has a payload
\* and is not excluded, duplicates included; only the candidates appended by
\* a backfill loop are compared with the titles already held
C22_OnlyBackfillDeduplicates ==
  [][/\ (pc = "gr_retrieve" /\ pc' \notin {"gr_retrieve", "gr_done"}
         /\ ~ProfileTruthy(user_profile)) =>
          Len(context') =
            Cardinality({k \in 1..Len(LastSearch.results) :
                           /\ HasPayload(LastSearch.results[k])
                           /\ Lower(TitleOf(LastSearch.results[k])) \notin excluded_titles'})
     /\ BackfillStep =>
          \A i \in (Len(context) + 1)..Len(context') : \A j \in 1..(i - 1) :
            Lower(context'[j].title) # Lower(context'[i].title)]_vars

\* the lower-cased query contains one of the words
QueryHas(words) == ContainsAny(words, Lower(query))

\* a candidate whose lower-cased type contains one of the words
CandidateOf(words) == \E i \in 1..Len(context) : ContainsAny(words, Lower(context[i].type))

\* C23: detect_response_type returns a type for every query and candidate
\* list, the type of the first matching rule in the order follow-up
\* keyword, similar/like, trending/popular/hot, detail phrase,
\* genre/filter/type of, candidate types (a TV candidate before a Movie
\* candidate), series/movie words of the query, else general chat.
C23_FirstMatchingRule ==
  pc = "detect_done" =>
    LET r1 == QueryHas(follow_up_patterns)
        r2 == QueryHas(similar_keywords)
        r3 == QueryHas(trending_keywords)
        r4 == QueryHas(detail_patterns)
        r5 == QueryHas(genre_filter_keywords)
        r6 == CandidateOf(tv_type_words)
        r7 == CandidateOf(movie_type_words)
        r8 == QueryHas(tv_query_words)
        r9 == QueryHas(movie_query_words)
    IN  /\ response_type \in ResponseTypes
        /\ r1 => response_type = FOLLOW_UP_REFERENCE
        /\ (~r1 /\ r2) => response_type = SIMILAR_CONTENT
        /\ (~r1 /\ ~r2 /\ r3) => response_type = TRENDING
        /\ (~r1 /\ ~r2 /\ ~r3 /\ r4) => response_type = DETAILED_INFO
        /\ (~r1 /\ ~r2 /\ ~r3 /\ ~r4 /\ r5) => response_type = GENRE_FILTER
        /\ (~r1 /\ ~r2 /\ ~r3 /\ ~r4 /\ ~r5 /\ r6) => response_type = TV_SHOW_RECOMMENDATION
        /\ (~r1 /\ ~r2 /\ ~r3 /\ ~r4 /\ ~r5 /\ ~r6 /\ r7) =>
             response_type = MOVIE_RECOMMENDATION
        /\ (~r1 /\ ~r2 /\ ~r3 /\ ~r4 /\ ~r5 /\ ~r6 /\ ~r7 /\ r8) =>
             response_type = TV_SHOW_RECOMMENDATION
        /\ (~r1 /\ ~r2 /\ ~r3 /\ ~r4 /\ ~r5 /\ ~r6 /\ ~r7 /\ ~r8 /\ r9) =>
             response_type = MOVIE_RECOMMENDATION
        /\ (~r1 /\ ~r2 /\ ~r3 /\ ~r4 /\ ~r5 /\ ~r6 /\ ~r7 /\ ~r8 /\ ~r9) =>
             response_type = GENERAL_CHAT

\* "popular Those" with a movie and a show as candidates: the follow-up
\* keyword decides, before the trending keyword and the candidate types
C23_Witness ==
  /\ pc = "detect_done"
  /\ query = <<"p","o","p","u","l","a","r"," ","T","h","o","s","e">>
  /\ context = <<Heat, DarkSeries>>
  /\ response_type = FOLLOW_UP_REFERENCE

\* the query contains a keyword of the off-topic list, whatever the case of
\* the letters of either
NamesOffTopicKeyword(q) ==
  \E i \in 1..Len(non_movie_keywords) : IsSubstr(Lower(non_movie_keywords[i]), Lower(q))

\* C24 as stated: every query that contains no domain keyword and contains a
\* keyword of the off-topic list (weather, math, news, recipe, a month name
\* such as 'January' or 'May') is out of scope, even if it is short or
\* matches an inquiry pattern.
C24_OffTopicRejected ==
  (pc = "scope_done" /\ ~HasDomainKeyword(query) /\ NamesOffTopicKeyword(query))
    => ~related

\* C24: every query that contains no domain keyword and whose lower-cased
\* text contains an entry of the off-topic list as the list spells it is
\* out of scope, even if it is short or matches an inquiry pattern.  The
\* entries spelled with a capital letter (Month, the month names and
\* their abbreviations) are contained in no lower-cased text: a query that
\* names only such an entry is classified by the later rules.
C24_LowerCaseOffTopicRejected ==
  pc = "scope_done" =>
    /\ (~HasDomainKeyword(query) /\ HasOffTopicKeyword(query)) => ~related
    /\ \A i \in 1..Len(non_movie_keywords) :
         non_movie_keywords[i] # Lower(non_movie_keywords[i]) =>
           ~IsSubstr(non_movie_keywords[i], Lower(query))
    /\ (~HasDomainKeyword(query) /\ ~HasOffTopicKeyword(query)
        /\ (MatchesAny(movie_inquiry_patterns, Lower(query)) \/ SplitCount(query) <= 5))
         => related

\* "what is the weather" matches an inquiry pattern and is out of scope
C24_Witness ==
  /\ pc = "scope_done"
  /\ query = <<"w","h","a","t"," ","i","s"," ","t","h","e"," ","w","e","a","t","h","e","r">>
  /\ ~HasDomainKeyword(query)
  /\ MatchesAny(movie_inquiry_patterns, Lower(query))
  /\ SplitCount(query) <= 5
  /\ ~related

\* "what is May" names a month and is in scope
C24_MonthInScope ==
  /\ pc = "scope_done"
  /\ query = <<"w","h","a","t"," ","i","s"," ","M","a","y">>
  /\ ~HasDomainKeyword(query)
  /\ related

\* the matches of the bold-bold and of the numbered-list method in the
\* answers of the history, trimmed and lower-cased
BoldOrNumberedTitles(history) ==
  UNION { {Lower(Strip(t)) : t \in Range(ReFindAll(title_bold_pattern, history[i][2], 1))
                                    \cup Range(ReFindAll(numbered_title_pattern, history[i][2], 1))}
          : i \in 1..Len(history) }

\* C25 as stated: the extracted exclusion set never holds a title of length
\* 2 or less; each of the four extraction methods discards such titles.
C25_NoShortTitleExtracted ==
  pc = "extract_done" => \A t \in excluded_titles : Len(t) > 2

\* C25: the bold-plain and the per-line method discard titles of length 2 or
\* less; the bold-bold and the numbered-list method add every match.  A title
\* of length 2 or less is in the exclusion set exactly when one of these two
\* methods matched it.
C25_ShortTitleOnlyFromBoldMethods ==
  pc = "extract_done" =>
    LET marked == BoldOrNumberedTitles(chat_history)
    IN  /\ marked \subseteq excluded_titles
        /\ \A t \in excluded_titles : Len(t) <= 2 => t \in marked

\* "**Title**: Up" followed by "**Title**: **Up**": the title is excluded
\* because of its bold spelling
C25_Witness ==
  /\ pc = "extract_done"
  /\ chat_history = << <<<<"q">>, PlainLine(<<"U","p">>) \o <<"\n">> \o BoldLine(<<"U","p">>)>> >>
  /\ <<"u","p">> \in excluded_titles

\* "**Title**: Up" alone: the short title is discarded
C25_PlainShortDiscarded ==
  /\ pc = "extract_done"
  /\ chat_history = << <<<<"q">>, PlainLine(<<"U","p">>)>> >>
  /\ excluded_titles = {}

\* the primary search came back and the rerank step is over
PrimaryHandled == searches # <<>> /\ searches[1].ok /\ pc # "gr_retrieve"

\* C26: a profile whose fields are all absent, null, empty strings or empty
\* lists yields the same enriched search text and the same candidate order as
\* no profile at all.
C26_EmptyFieldsNoInfluence ==
  user_profile \in {EmptyProfile, NullFields} =>
    /\ pc # "gr_normalize" => enhanced_query = query
    /\ PrimaryHandled =>
         /\ raised # "rerank"
         /\ reranked = PrimaryContext(searches[1].results, excluded_titles)

\* what the steps do with such a profile: the enrichment leaves the query
\* as it is; the rerank step of a profile with a null list raises while it
\* iterates the list, and get_recommendation returns the error response
C26_NullListFailsRerank ==
  /\ (user_profile \in {EmptyProfile, NullFields} /\ pc # "gr_normalize") =>
       enhanced_query = query
  /\ (user_profile = EmptyProfile /\ PrimaryHandled) =>
       /\ raised # "rerank"
       /\ reranked = PrimaryContext(searches[1].results, excluded_titles)
  /\ (user_profile = NullFields /\ PrimaryHandled) =>
       /\ pc = "gr_done"
       /\ raised = "rerank"
       /\ result = ErrorResult

\* the candidate is of a genre the profile dislikes
OfDislikedGenre(c) ==
  LET disliked == Clean(GetList(user_profile, "disliked_genres"))
  IN  \E j \in 1..Len(disliked) : GenreContains(c, disliked[j])

\* get_recommendation returned an answer for a profile with disliked genres
AnsweredWithDislikes ==
  pc = "gr_done" /\ raised = "none" /\ HasDislikedGenres(user_profile)

\* C27: for a profile with a non-empty list of disliked genres, no candidate
\* in the final list returned as sources and passed to the generator has a
\* genre containing a disliked genre, the candidates added by the
\* supplementary and the broader search included.
C27_NoDislikedGenreInSources ==
  AnsweredWithDislikes =>
    \A i \in 1..Len(result.sources) : ~OfDislikedGenre(result.sources[i])

\* what is returned: the candidates kept by the rerank step are of no
\* disliked genre; a candidate of a disliked genre among the sources was
\* appended by a backfill search
C27_DislikedSourceIsBackfilled ==
  AnsweredWithDislikes =>
    \A i \in 1..Len(result.sources) :
      OfDislikedGenre(result.sources[i]) =>
        /\ i > Len(reranked)
        /\ Len(searches) > 1

\* the request came with a session id and was answered with HTTP 200
CompletedWithSession ==
  pc = "h_done" /\ request.session_id # "" /\ response.status = 200

\* C28: in every state, the states between the steps of a request on the
\* use_functions path included, every stored session holds at most
\* max_history turns, and a completed request with a session id has added
\* exactly one turn (query, answer) to its session.
C28_CapKeptAndOneTurnAdded ==
  /\ \A s \in DOMAIN conversations : Len(conversations[s]) <= max_history
  /\ CompletedWithSession =>
       /\ get_history(conversations, request.session_id) =
            LastN(added[request.session_id], max_history)
       /\ added[request.session_id][Len(added[request.session_id])] =
            <<request.query, response.body.answer>>

\* what holds: on the path of get_recommendation the cap is kept and one
\* turn is added; on the use_functions path a request that reads an existing
\* session and sends no history has its turn stored by chat_with_functions
\* and again by add_message, and the session holds one turn more than the
\* cap between the two
C28_FunctionPathStoresTwice ==
  /\ ~request.use_functions =>
       /\ \A s \in DOMAIN conversations : Len(conversations[s]) <= max_history
       /\ CompletedWithSession =>
            get_history(conversations, request.session_id) =
              LastN(added[request.session_id], max_history)
  /\ (request.use_functions /\ CompletedWithSession) =>
       LET turn == <<request.query, response.body.answer>>
           before == SubSeq(added[request.session_id], 1, Len(added[request.session_id]) - 1)
       IN  get_history(conversations, request.session_id) =
             IF history_aliased
             THEN LastN(before \o <<turn, turn>>, max_history)
             ELSE LastN(Append(before, turn), max_history)
  /\ (pc = "cf_done" /\ history_aliased) =>
       Len(conversations[request.session_id]) = Len(added[request.session_id]) + 1

FailedWithSession ==
  pc = "h_done" /\ response.status = 500 /\ request.session_id # ""

\* the history the session of the request had when the request arrived:
\* the handler calls add_message at most once, as its last step
HistoryOnArrival ==
  LET a == added[request.session_id]
  IN  IF pc = "h_done" /\ related THEN SubSeq(a, 1, Len(a) - 1) ELSE a

\* C29: a request that fails with HTTP 500 leaves the history of its session
\* as it was when the request arrived: no turn is stored for it.
C29_FailedRequestStoresNothing ==
  FailedWithSession =>
    get_history(conversations, request.session_id) = HistoryOnArrival

\* HistoryOnArrival is the history of the store the request found
C29_ArrivalHistoryKept ==
  \A st \in Stores :
    (conversations = st) =>
      [](request.session_id # "" =>
           HistoryOnArrival = get_history(st, request.session_id))

\* What the handler does: add_message runs before the answer is tested, so a
\* request that was in scope and failed on its empty answer has stored the
\* turn with that empty answer as the last turn of its session; only the
\* request rejected by the scope check leaves the history as it was.
C29_EmptyAnswerTurnStored ==
  FailedWithSession =>
    IF related
    THEN /\ ~Truthy(result.answer)
         /\ LET h == get_history(conversations, request.session_id)
            IN  /\ Len(h) >= 1
                /\ h[Len(h)] = <<request.query, result.answer>>
         /\ added[request.session_id][Len(added[request.session_id])]
              = <<request.query, result.answer>>
    ELSE get_history(conversations, request.session_id) = added[request.session_id]

\* C30: the scope check comes first: when the query of a request is out of
\* scope, no normalizer, embedding, vector-search or chat-completion call
\* was made, neither the user profile nor the session history was read, and
\* the session store is the one the request found.
C30_ScopeCheckPrecedesAll ==
  \A st \in Stores :
    (conversations = st) =>
      [](RejectedRequest =>
           /\ conversations = st
           /\ llm_reply = NoReply /\ enhanced_query = <<>> /\ filters = <<>>
           /\ searches = <<>> /\ reranked = <<>>
           /\ prompt_data = <<>> /\ result = NoResult
           /\ user_profile = NoProfile /\ user_name = NoneStr
           /\ chat_history = <<>> /\ history_aliased = FALSE
           /\ response = ServerError(OutOfScope(request.query)))

C30_Witness ==
  /\ RejectedRequest
  /\ request.session_id \in DOMAIN conversations
  /\ request.user_id \in DOMAIN mock_database
  /\ request.chat_history # <<>>
  /\ response.status = 500
(***************************************************************************)
(* Specifications                                                          *)
(***************************************************************************)
ArgIdle ==
  /\ query = <<>>
  /\ chat_history = <<>>
  /\ user_profile = NoProfile
  /\ user_name = NoneStr

\* the session store on its own
InitMemory ==
  /\ pc = "memory" /\ MemoryInit /\ ScopeIdle /\ ArgIdle /\ PromptIdle /\ ParseIdle
  /\ PipelineIdle /\ HandlerIdle
NextMemory == AddMessage \/ ClearSession
SpecMemory == InitMemory /\ [][NextMemory]_vars

\* two add_message calls on one session from different threads
InitRace ==
  /\ pc = "race"
  /\ conversations \in RaceStores
  /\ max_history \in Caps
  /\ added = [s \in SessionIds |-> get_history(conversations, s)]
  /\ writers = [r \in Writers |-> [at |-> "check", tail |-> <<>>, overlapped |-> FALSE]]
  /\ ScopeIdle /\ ArgIdle /\ PromptIdle /\ ParseIdle /\ PipelineIdle /\ HandlerIdle
NextRace ==
  \E r \in Writers :
    \/ CheckSession(r) \/ CreateList(r) \/ AppendTurn(r)
    \/ CheckLength(r) \/ SliceTail(r) \/ AssignTail(r)
SpecRace == InitRace /\ [][NextRace]_vars

\* the scope classifier on its own
InitScope ==
  /\ pc = "scope"
  /\ query \in ScopeQueries
  /\ chat_history = <<>> /\ user_profile = NoProfile /\ user_name = NoneStr
  /\ ScopeIdle /\ MemoryIdle /\ PromptIdle /\ ParseIdle
  /\ PipelineIdle /\ HandlerIdle
NextScope == IsMovieRelatedCall
SpecScope == InitScope /\ [][NextScope]_vars

\* the prompt builder on its own
InitPrompt ==
  /\ pc = "prompt"
  /\ query \in PromptQueries
  /\ chat_history \in PromptHistories
  /\ user_profile = NoProfile
  /\ user_name \in {NoneStr, <<"A","n","n">>}
  /\ context \in PromptContexts
  /\ response_type \in ResponseTypes \cup {NoType}
  /\ prompt_data = <<>>
  /\ ScopeIdle /\ MemoryIdle /\ ParseIdle /\ PipelineIdle /\ HandlerIdle
NextPrompt == CreateStructuredPromptCall
SpecPrompt == InitPrompt /\ [][NextPrompt]_vars

\* the response type selection on its own
InitDetect ==
  /\ pc = "detect"
  /\ query \in DetectQueries
  /\ chat_history = <<>> /\ user_profile = NoProfile /\ user_name = NoneStr
  /\ context \in DetectContexts
  /\ response_type = NoType
  /\ prompt_data = <<>>
  /\ ScopeIdle /\ MemoryIdle /\ ParseIdle /\ PipelineIdle /\ HandlerIdle
NextDetect == DetectResponseTypeCall
SpecDetect == InitDetect /\ [][NextDetect]_vars

\* the query normalizer on its own
InitParse ==
  /\ pc = "parse"
  /\ query \in ParseQueries
  /\ chat_history = <<>> /\ user_profile = NoProfile /\ user_name = NoneStr
  /\ ScopeIdle /\ MemoryIdle /\ PromptIdle /\ ParseIdle
  /\ PipelineIdle /\ HandlerIdle
NextParse == ParseQueryWithLlmCall
SpecParse == InitParse /\ [][NextParse]_vars

\* the title extraction on its own
InitExclusion ==
  /\ pc = "extract"
  /\ chat_history \in ExclusionHistories
  /\ query = <<>> /\ user_profile = NoProfile /\ user_name = NoneStr
  /\ ScopeIdle /\ MemoryIdle /\ PromptIdle /\ ParseIdle /\ PipelineIdle /\ HandlerIdle
NextExclusion == ExtractTitlesStep
SpecExclusion == InitExclusion /\ [][NextExclusion]_vars

\* get_recommendation called directly
InitPipeline ==
  /\ pc = "gr_normalize"
  /\ query \in PipelineQueries
  /\ chat_history \in PipelineHistories
  /\ user_profile \in PipelineProfiles
  /\ user_name = NoneStr
  /\ \E f \in PipelineFlags : use_template = f[1] /\ use_llm_parsing = f[2]
  /\ enhanced_query = <<>> /\ excluded_titles = {} /\ searches = <<>>
  /\ reranked = <<>> /\ result = NoResult /\ raised = "none"
  /\ ScopeIdle /\ MemoryIdle /\ PromptIdle /\ ParseIdle /\ HandlerIdle
NextPipeline ==
  \/ NormalizeQuery \/ PrimaryRetrieval \/ SupplementarySearch \/ BroaderSearch
  \/ Generate
SpecPipeline == InitPipeline /\ [][NextPipeline]_vars

\* one request from its arrival to its response
InitHandler ==
  /\ pc = "h_request"
  /\ request \in Requests
  /\ conversations \in Stores
  /\ max_history = DefaultMaxHistory
  /\ added = [s \in SessionIds |-> get_history(conversations, s)]
  /\ writers = NoWriters
  /\ mock_database \in Databases
  /\ history_aliased = FALSE
  /\ response = NoResponse
  /\ ScopeIdle /\ ArgIdle /\ PromptIdle /\ ParseIdle /\ PipelineIdle
NextHandler ==
  \/ ReceiveRequest \/ ChatWithFunctions \/ CompleteRequest
  \/ NormalizeQuery \/ PrimaryRetrieval \/ SupplementarySearch \/ BroaderSearch
  \/ Generate
SpecHandler == InitHandler /\ [][NextHandler]_vars

=============================================================================
